---- MODULE Spec2Model ----
(***************************************************************************)
(* Model of arachne (entity batch manager), of the part of pheidippides   *)
(* (batch courier) that arachne::flush calls, and of http_client (the      *)
(* retrying transport).                                                    *)
(*                                                                         *)
(* Identifiers are strings, modelled as sequences of one-character         *)
(* strings, so that identify / parse_id / entity_root / normalize are      *)
(* computed character by character as the source does.                     *)
(***************************************************************************)
EXTENDS Integers, Sequences, FiniteSets, TLC

(***************************************************************************)
(* Bounds of the model.                                                    *)
(***************************************************************************)
\* arachne::batch_threshold (50 in arachne.hpp:283), scaled down
batch_threshold == 2
\* options::batch_threshold of the courier (50 in utils.hpp:88), scaled down
opt_batch_threshold == 2
\* arachne::candidates_threshold (50 in arachne.hpp:285), scaled down
candidates_threshold == 2
\* a touch counter is not advanced beyond this value
MaxTouch == 3
\* number of API calls in a run
MaxCalls == 3
\* number of logical transport calls in a run
MaxLogicalCalls == 2
\* attempt numbers the backoff computations are applied to
MaxAttempt == 5
\* the longest query text handed to choose_http_method, and the largest
\* threshold
MaxQueryLen == 5
\* identify is applied to every string of at most MaxIdLen characters of
\* Alphabet
MaxIdLen == 3
\* normalize is applied to every numeral up to MaxNumeral
MaxNumeral == 12
\* the draws of the jitter distribution followed: DrawParts + 1 values
\* spread evenly over its range
DrawParts == 8

(***************************************************************************)
(* corespace::entity_kind, by enumerator value.                            *)
(***************************************************************************)
item == 0
property == 1
lexeme == 2
mediainfo == 3
entity_schema == 4
form == 5
sense == 6
any == 7
unknown == 8

batched_kind_count == 7
INT_MAX == 2147483647

prefixes == <<"Q", "P", "L", "M", "E">>
npos == -1

(***************************************************************************)
(* Character helpers.                                                      *)
(***************************************************************************)
Digits == {"0", "1", "2", "3", "4", "5", "6", "7", "8", "9"}
DigitSeq == <<"0", "1", "2", "3", "4", "5", "6", "7", "8", "9">>
DigitVal(c) == CHOOSE d \in 0..9 : DigitSeq[d + 1] = c
\* the vertical tab (0x0B), a character that has no escape in a string here
vertical_tab == "\\v"
\* std::isspace in the "C" locale
IsSpace(c) == c \in {" ", "\t", "\n", vertical_tab, "\f", "\r"}

\* std::string::find(char) on prefixes
find(c) ==
    IF \E i \in 1..Len(prefixes) : prefixes[i] = c
    THEN (CHOOSE i \in 1..Len(prefixes) : prefixes[i] = c) - 1
    ELSE npos

\* std::to_string(int) for a non-negative value
RECURSIVE to_string(_)
to_string(n) ==
    IF n < 10 THEN <<DigitSeq[n + 1]>>
    ELSE to_string(n \div 10) \o <<DigitSeq[(n % 10) + 1]>>

\* number of leading white-space characters of s
RECURSIVE SkipSpace(_)
SkipSpace(s) ==
    IF s # <<>> /\ IsSpace(Head(s)) THEN 1 + SkipSpace(Tail(s)) ELSE 0

\* digits of s consumed from the front: magnitude so far acc, count cnt;
\* over is set once the magnitude exceeds INT_MAX, and min tells that the
\* magnitude is exactly INT_MAX + 1 (representable only with a minus sign)
RECURSIVE ScanDigits(_, _, _, _, _)
ScanDigits(s, acc, cnt, over, min) ==
    IF s # <<>> /\ Head(s) \in Digits
    THEN LET d    == DigitVal(Head(s))
             fits == ~over /\ (acc < INT_MAX \div 10
                               \/ (acc = INT_MAX \div 10 /\ d <= INT_MAX % 10))
             isMin == ~over /\ acc = INT_MAX \div 10 /\ d = (INT_MAX % 10) + 1
         IN  IF fits
             THEN ScanDigits(Tail(s), acc * 10 + d, cnt + 1, FALSE, FALSE)
             ELSE ScanDigits(Tail(s), 0, cnt + 1, TRUE, isMin)
    ELSE [val |-> acc, cnt |-> cnt, over |-> over, min |-> min]

\* std::stoi(s, &len): ok = FALSE stands for a thrown invalid_argument or
\* out_of_range
stoi(s) ==
    LET Convert(ws, sign, neg, d) ==
            IF d.cnt = 0 \/ (d.over /\ ~(neg /\ d.min))
            THEN [ok |-> FALSE, val |-> 0, len |-> 0]
            ELSE [ok |-> TRUE,
                  val |-> IF ~neg THEN d.val
                          ELSE IF d.min THEN (0 - INT_MAX) - 1 ELSE 0 - d.val,
                  len |-> ws + sign + d.cnt]
        Signed(ws, sign, neg) ==
            Convert(ws, sign, neg,
                    ScanDigits(SubSeq(s, ws + sign + 1, Len(s)), 0, 0,
                               FALSE, FALSE))
        Spaced(ws) ==
            IF ws < Len(s) /\ s[ws + 1] \in {"+", "-"}
            THEN Signed(ws, 1, s[ws + 1] = "-")
            ELSE Signed(ws, 0, FALSE)
    IN  Spaced(SkipSpace(s))

\* parse_id without the comparison of std::to_string(id).size() with len
parse_id_any_spelling(entity, pos) ==
    LET Parsed(r) ==
            IF ~r.ok
            THEN [ok |-> FALSE, pos |-> pos, id |-> 0]
            ELSE IF r.val < 0 \/ r.len = 0
            THEN [ok |-> FALSE, pos |-> pos, id |-> r.val]
            ELSE [ok |-> TRUE, pos |-> pos + r.len, id |-> r.val]
    IN  IF pos > Len(entity)
        THEN [ok |-> FALSE, pos |-> pos, id |-> 0]
        ELSE Parsed(stoi(SubSeq(entity, pos + 1, Len(entity))))

\* arachne::parse_id(entity, pos, id); pos is 0-based as in the source
parse_id(entity, pos) ==
    LET Parsed(r) ==
            IF ~r.ok
            THEN [ok |-> FALSE, pos |-> pos, id |-> 0]
            ELSE IF r.val < 0 \/ r.len = 0 \/ Len(to_string(r.val)) # r.len
            THEN [ok |-> FALSE, pos |-> pos, id |-> r.val]
            ELSE [ok |-> TRUE, pos |-> pos + r.len, id |-> r.val]
    IN  IF pos > Len(entity)
        THEN [ok |-> FALSE, pos |-> pos, id |-> 0]
        ELSE Parsed(stoi(SubSeq(entity, pos + 1, Len(entity))))

\* arachne::identify
identify(entity) ==
    LET Suffix(tag, p2) ==
            IF (tag # "F" /\ tag # "S") \/ ~p2.ok \/ p2.pos # Len(entity)
            THEN unknown
            ELSE IF tag = "F" THEN form ELSE sense
        Numbered(kind, p1) ==
            IF kind = npos \/ ~p1.ok THEN unknown
            ELSE IF p1.pos = Len(entity) THEN kind
            ELSE IF kind # lexeme
                    \/ p1.pos >= Len(entity)
                    \/ entity[p1.pos + 1] # "-"
                    \/ p1.pos + 1 >= Len(entity)
            THEN unknown
            ELSE Suffix(entity[p1.pos + 2], parse_id(entity, p1.pos + 2))
    IN  IF Len(entity) < 2 THEN unknown
        ELSE Numbered(find(entity[1]), parse_id(entity, 1))

\* entity_root without the reduction of a form or sense to its lexeme
entity_root_verbatim(id) ==
    LET Root(kind) ==
            IF kind = any \/ kind = unknown
            THEN [exc |-> "invalid_argument", val |-> <<>>]
            ELSE [exc |-> "none", val |-> id]
    IN  Root(identify(id))

\* arachne::entity_root; exc = "invalid_argument" stands for the throw
entity_root(id) ==
    LET Lexeme(p) ==
            IF ~p.ok
            THEN [exc |-> "invalid_argument", val |-> <<>>]
            ELSE [exc |-> "none", val |-> <<"L">> \o to_string(p.id)]
        Root(kind) ==
            IF kind = any \/ kind = unknown
            THEN [exc |-> "invalid_argument", val |-> <<>>]
            ELSE IF kind = form \/ kind = sense
            THEN IF Len(id) < 2 \/ id[1] # "L"
                 THEN [exc |-> "invalid_argument", val |-> <<>>]
                 ELSE Lexeme(parse_id(id, 1))
            ELSE [exc |-> "none", val |-> id]
    IN  Root(identify(id))

\* normalize that maps a numeric form or sense to no lexeme
normalize_by_kind_letter(id, kind) ==
    IF id < 0 THEN [exc |-> "invalid_argument", val |-> <<>>]
    ELSE IF kind = any \/ kind = unknown
    THEN [exc |-> "invalid_argument", val |-> <<>>]
    ELSE [exc |-> "none",
          val |-> <<(prefixes \o <<"F", "S">>)[kind + 1]>> \o to_string(id)]

\* arachne::normalize
normalize(id, kind) ==
    IF id < 0 THEN [exc |-> "invalid_argument", val |-> <<>>]
    ELSE IF kind = any \/ kind = unknown
    THEN [exc |-> "invalid_argument", val |-> <<>>]
    ELSE LET idx == IF kind >= form THEN lexeme ELSE kind
         IN  [exc |-> "none", val |-> <<prefixes[idx + 1]>> \o to_string(id)]


(***************************************************************************)
(* utils: choose_http_method                                               *)
(***************************************************************************)
\* http_method_hint and http_method
automatic == "automatic"
force_get == "force_get"
force_post == "force_post"
http_get == "get"
http_post == "post"

\* choose_http_method that posts a query of exactly the threshold's length
choose_http_method_from_threshold(request, threshold) ==
    CASE request.method = automatic ->
            IF Len(request.query) < threshold THEN http_get ELSE http_post
      [] request.method = force_get -> http_get
      [] request.method = force_post -> http_post
      [] OTHER -> http_get

\* choose_http_method(request, threshold)
choose_http_method(request, threshold) ==
    CASE request.method = automatic ->
            IF Len(request.query) <= threshold THEN http_get ELSE http_post
      [] request.method = force_get -> http_get
      [] request.method = force_post -> http_post
      [] OTHER -> http_get

(***************************************************************************)
(* Inputs the callers draw from.                                           *)
(***************************************************************************)
Q1 == <<"Q", "1">>
Q2 == <<"Q", "2">>
Q3 == <<"Q", "3">>
L1 == <<"L", "1">>
L2 == <<"L", "2">>
L1F1 == <<"L", "1", "-", "F", "1">>
L1S2 == <<"L", "1", "-", "S", "2">>
X1 == <<"X", "1">>
P1 == <<"P", "1">>
M1 == <<"M", "1">>
E1 == <<"E", "1">>

\* strings handed to add_entity
AddArgs == {Q1, Q2, Q3, L2, L1F1, L1S2, X1}
\* strings handed to touch_entity
TouchArgs == {Q1, L1F1, X1}
\* numeral lists and kinds handed to add_ids
NumLists == {<<1>>, <<1, 2>>, <<2, 2>>}
KindArgs == {item, form, any}
\* group names handed by callers ("" selects the current / anonymous group)
NameArgs == {"", "g1"}
\* values random_hex(8) produces, prefixed with "g_"
AnonNames == {"g_0000000a", "g_0000000b", "g_0000000c"}
\* query texts, hints and thresholds handed to choose_http_method
Queries == {[i \in 1..n |-> "q"] : n \in 0..MaxQueryLen}
Hints == {automatic, force_get, force_post}
Thresholds == 0..MaxQueryLen

\* numerals and kinds handed to normalize
NormalizeArgs ==
    {(0 - INT_MAX) - 1, -1, 99, 100, INT_MAX - 1, INT_MAX} \cup 0..MaxNumeral
AllKinds == {item, property, lexeme, mediainfo, entity_schema, form, sense,
             any, unknown}

\* strings handed to identify: every string of at most MaxIdLen characters
\* of Alphabet, and a letter followed by a numeral, by nothing or a suffix
\* with a numeral, and by nothing or a further character
Alphabet == {"Q", "L", "X", "0", "1", "-", "F", "S", "+", " "}
RECURSIVE Words(_)
Words(n) ==
    IF n = 0 THEN {<<>>}
    ELSE LET Longer(W) ==
                 W \cup {Append(w, c) : w \in {v \in W : Len(v) = n - 1},
                                        c \in Alphabet}
         IN  Longer(Words(n - 1))
NumeralArgs ==
    {<<>>, <<"0">>, <<"1">>, <<"0", "1">>, <<"0", "0">>, <<"1", "2">>,
     <<"+", "1">>, <<"-", "1">>, <<" ", "1">>, <<vertical_tab, "1">>,
     <<" ", "\t", "\n", vertical_tab, "\f", "\r", "1">>,
     to_string(INT_MAX), <<"0">> \o to_string(INT_MAX),
     to_string(INT_MAX \div 10) \o <<"8">>,
     to_string(INT_MAX \div 10) \o <<"0", "0">>}
SuffixArgs ==
    {<<>>} \cup {<<"-", tag>> \o n : tag \in {"F", "S", "X", "f"},
                                    n \in NumeralArgs}
IdentifyArgs ==
    Words(MaxIdLen)
    \cup {<<c>> \o n \o sfx \o t :
             c \in {"Q", "P", "L", "M", "E", "X", "q"}, n \in NumeralArgs,
             sfx \in SuffixArgs, t \in {<<>>, <<"x">>, <<" ">>}}

\* identifiers a batch handed to fetch_json is made of, and the kinds
\* handed with it
FetchIds == {Q1, Q2, Q3, P1, L1, M1, E1, X1}
FetchKinds == {item, property, lexeme, mediainfo, entity_schema, form,
               sense, any, unknown}
\* kinds handed to flush
FlushArgs == {item, property, lexeme, sense, any}

(***************************************************************************)
(* State of one arachne instance.                                          *)
(***************************************************************************)
VARIABLES
    main_batches,   \* [0..6 -> set of strings]
    extra_batches,  \* [0..6 -> set of strings]
    groups,         \* group name -> set of strings
    candidates,     \* string -> touch count
    current_group,  \* "" while no group is current
    running,        \* FALSE once the process was terminated
    calls,          \* number of API calls made so far
    last            \* the last API call and its outcome

\* the fields of the arachne instance and the record of its calls
arachne_vars == <<main_batches, extra_batches, groups, candidates,
                  current_group, running, calls, last>>

(***************************************************************************)
(* State of one http_client instance and of the threads that call it.      *)
(***************************************************************************)
VARIABLES
    metrics,        \* network_metrics of the instance
    mu,             \* the thread that holds the mutex, 0 while it is free
    thread,         \* each thread's position in its logical call
    logical_calls   \* number of logical calls entered so far

http_vars == <<metrics, mu, thread, logical_calls>>

(***************************************************************************)
(* The courier (pheidippides) and the backoff computations, each applied   *)
(* once to inputs of the caller's or the server's choice.                  *)
(***************************************************************************)
VARIABLES
    backoff,        \* the backoff computed last and its inputs
    fetched         \* the fetch_json call made last and its outcome

courier_vars == <<backoff, fetched>>

(***************************************************************************)
(* The free functions, each applied once to inputs of the caller's choice. *)
(***************************************************************************)
VARIABLES
    applied         \* the function applied last, its input and its output

utils_vars == <<applied>>

vars == <<main_batches, extra_batches, groups, candidates, current_group,
          running, calls, last, metrics, mu, thread, logical_calls,
          backoff, fetched, applied>>

\* the fields of the object, as one value
Self == [main |-> main_batches, extra |-> extra_batches, groups |-> groups,
         candidates |-> candidates, current |-> current_group]

Put(f, k, v) == [x \in DOMAIN f \cup {k} |-> IF x = k THEN v ELSE f[x]]
\* the count a table holds for a key (0 for a key it lacks)
CountIn(table, id) == IF id \in DOMAIN table THEN table[id] ELSE 0

\* outcome of a call: the object afterwards, the exception that left the
\* call ("none", "invalid_argument", "runtime_error", "parse_error", or
\* "terminate" when the process ended), the returned size or flag, the
\* requests (chunks of identifiers) the call sent, in order, and whether
\* the call indexed past the end of the queue array
Result(st, exc, ret, ok, reqs) ==
    [st |-> st, exc |-> exc, ret |-> ret, ok |-> ok, reqs |-> reqs,
     oob |-> FALSE]

(***************************************************************************)
(* pheidippides::fetch_json                                                *)
(***************************************************************************)
\* the ways std::views::chunk(n) can cut the identifiers S, over all
\* iteration orders of the unordered set
RECURSIVE Chunkings(_, _)
Chunkings(S, n) ==
    IF S = {} THEN {<<>>}
    ELSE IF Cardinality(S) <= n THEN {<<S>>}
    ELSE UNION {{<<c>> \o rest : rest \in Chunkings(S \ c, n)} :
                c \in {c \in SUBSET S : Cardinality(c) = n}}

\* outcomes of one wbgetentities_batch call that end the fetch
ChunkFailures == {"runtime_error", "parse_error"}

\* A JSON object is the set of its leaves <<path, value>>, the path being
\* the keys from the top down. A value is a scalar, an array (one value as
\* a whole, "[...]") or "{}", an object without keys.
Prefix(p, q) == Len(p) <= Len(q) /\ SubSeq(q, 1, Len(p)) = p
\* data[path] is an object
is_object(data, path) ==
    \E l \in data :
        Prefix(path, l[1]) /\ (Len(l[1]) > Len(path) \/ l[2] = "{}")

\* json::object(), and combined once it has been given the key "entities"
object == {}
combined == {<<<<"entities">>, "{}">>}

\* responses of the entity API
labelled ==
    {<<<<"entities", "Q1", "labels">>, "a">>,
     <<<<"entities", "Q1", "aliases">>, "[1]">>,
     <<<<"success">>, "1">>}
relabelled ==
    {<<<<"entities", "Q1", "labels">>, "b">>,
     <<<<"entities", "Q2", "labels">>, "c">>,
     <<<<"success">>, "1">>}
refused == {<<<<"error", "code">>, "e">>}

\* what cpr::Session::Get returns: the status, whether error.code is OK,
\* and the text, which is a JSON object or does not parse
Reply(status, net_ok, parses, text) ==
    [status_code |-> status, net_ok |-> net_ok, parses |-> parses,
     text |-> text]
ok(text) == Reply(200, TRUE, TRUE, text)
malformed == Reply(200, TRUE, FALSE, object)
unavailable == Reply(503, TRUE, TRUE, refused)
not_found == Reply(404, TRUE, TRUE, refused)
dropped == Reply(0, FALSE, FALSE, object)

\* what the server does: its replies to the physical requests of a fetch,
\* in order, the last one repeated
Servers ==
    {<<ok(labelled)>>, <<ok(labelled), ok(relabelled)>>,
     <<ok(relabelled), ok(refused)>>, <<unavailable, ok(labelled), malformed>>,
     <<ok(labelled), malformed>>, <<malformed>>, <<unavailable>>,
     <<ok(labelled), not_found>>, <<dropped, ok(relabelled), dropped>>}
Served(server, i) == server[IF i < Len(server) THEN i ELSE Len(server)]

\* opt.max_retries of the courier
courier_max_retries == 3

\* get_with_retries from the pos-th reply of the server on: the attempts
\* made, the response of the last one, and "runtime_error" if that throws
get_with_retries(server, pos) ==
    LET good(r) == r.net_ok /\ r.status_code >= 200 /\ r.status_code < 300
        retryable_http(r) ==
            \/ r.status_code = 429
            \/ r.status_code = 408
            \/ (r.status_code >= 500 /\ r.status_code < 600)
        ends(attempt, r) ==
            \/ good(r)
            \/ ~(attempt <= courier_max_retries
                    /\ (~r.net_ok \/ retryable_http(r)))
        Ends(attempt) == ends(attempt, Served(server, pos + attempt - 1))
        Last(attempt, r) ==
            [exc |-> IF good(r) THEN "none" ELSE "runtime_error",
             attempts |-> attempt, r |-> r]
        After(attempt) == Last(attempt, Served(server, pos + attempt - 1))
    IN  After(CHOOSE a \in 1..(courier_max_retries + 1) :
                 Ends(a) /\ \A b \in 1..(a - 1) : ~Ends(b))

\* wbgetentities_batch that asks again when the text does not parse
wbgetentities_batch_reparsing(server, pos) ==
    LET Parsed(g, again) ==
            IF g.exc # "none" THEN [g EXCEPT !.r.text = object]
            ELSE IF g.r.parses THEN g
            ELSE IF again.exc = "none" /\ again.r.parses
            THEN [again EXCEPT !.attempts = g.attempts + again.attempts]
            ELSE [exc |-> "parse_error",
                  attempts |-> g.attempts + again.attempts,
                  r |-> [again.r EXCEPT !.text = object]]
        Asked(g) == Parsed(g, get_with_retries(server, pos + g.attempts))
    IN  Asked(get_with_retries(server, pos))

\* wbgetentities_batch on a chunk that is not empty: get_with_retries,
\* then json::parse of the text
wbgetentities_batch(server, pos) ==
    LET Parsed(g) ==
            IF g.exc # "none" THEN [g EXCEPT !.r.text = object]
            ELSE IF g.r.parses THEN g
            ELSE [g EXCEPT !.exc = "parse_error", !.r.text = object]
    IN  Parsed(get_with_retries(server, pos))

\* the loop body's merge: every member of data["entities"], if that is an
\* object, is assigned to the same key of combined["entities"]
merge_entities(cmb, data) ==
    LET Assigned(items) ==
            IF items = {} THEN cmb
            ELSE {l \in cmb : ~(Len(l[1]) = 1
                                  \/ l[1][2] \in {m[1][2] : m \in items})}
                 \cup items
    IN  IF is_object(data, <<"entities">>)
        THEN Assigned({l \in data :
                          Len(l[1]) >= 2 /\ l[1][1] = "entities"})
        ELSE cmb

\* the loop of fetch_json over the chunks cs from the i-th on, pos being
\* the next reply of the server, cmb the object combined so far and docs
\* the responses merged so far
RECURSIVE fetch_chunks(_, _, _, _, _, _)
fetch_chunks(cs, i, pos, cmb, docs, server) ==
    LET Left(exc, sent, json, attempts) ==
            [exc |-> exc, reqs |-> SubSeq(cs, 1, sent), json |-> json,
             attempts |-> attempts, docs |-> docs, server |-> server]
        Then(data) ==
            IF data.exc # "none"
            THEN Left(data.exc, i, object, pos + data.attempts - 1)
            ELSE fetch_chunks(cs, i + 1, pos + data.attempts,
                              merge_entities(cmb, data.r.text),
                              Append(docs, data.r.text), server)
    IN  IF i > Len(cs)
        THEN Left("none", Len(cs), cmb, pos - 1)
        ELSE Then(wbgetentities_batch(server, pos))

\* fetch_json(batch, kind): the exception, the requests sent, the batch
\* afterwards (the set is passed by reference and is not modified), the
\* object returned (of no meaning when an exception leaves), the physical
\* attempts made, the responses merged and the server that replied
fetch_json(batch, kind) ==
    LET Done(exc, json) ==
            [exc |-> exc, reqs |-> <<>>, batch |-> batch, json |-> json,
             attempts |-> 0, docs |-> <<>>, server |-> <<>>]
        Of(f) ==
            [exc |-> f.exc, reqs |-> f.reqs, batch |-> batch,
             json |-> f.json, attempts |-> f.attempts, docs |-> f.docs,
             server |-> f.server]
        Send(ids) ==
            IF ids = {}
            THEN {Done("none", object)}
            ELSE {Of(fetch_chunks(cs, 1, 1, combined, <<>>, server)) :
                     cs \in Chunkings(ids, opt_batch_threshold),
                     server \in Servers}
    IN  IF batch = {}
        THEN {Done("none", object)}
        ELSE IF kind # item /\ kind # property /\ kind # any
        THEN {Done("invalid_argument", object)}
        ELSE IF \E id \in batch : identify(id) = unknown
        THEN {Done("invalid_argument", object)}
        ELSE Send({id \in batch : kind = any \/ identify(id) = kind})

(***************************************************************************)
(* arachne                                                                 *)
(***************************************************************************)
\* new_group that assigns an empty member set instead of try_emplace
new_group_assign(st, name) ==
    LET names == IF name = "" THEN AnonNames \ DOMAIN st.groups ELSE {name}
    IN  {Result([st EXCEPT !.groups = Put(@, n, {}), !.current = n],
                "none", 0, n \notin DOMAIN st.groups, <<>>) : n \in names}

\* arachne::new_group: the random name of an anonymous group is any name
\* the table lacks
new_group(st, name) ==
    LET names == IF name = "" THEN AnonNames \ DOMAIN st.groups ELSE {name}
    IN  {Result([st EXCEPT !.groups = IF n \in DOMAIN @ THEN @
                                      ELSE Put(@, n, {}),
                           !.current = n],
                "none", 0, n \notin DOMAIN st.groups, <<>>) : n \in names}

\* select_group that opens a new anonymous group on every empty name
select_group_always_new(st, name) == new_group(st, name)

\* arachne::select_group
select_group(st, name) ==
    IF name = ""
    THEN IF st.current = "" THEN new_group(st, "")
         ELSE {Result(st, "none", 0, FALSE, <<>>)}
    ELSE new_group(st, name)

\* arachne::enqueue: the store lookup is a stub (exist = false, last = -1),
\* so the first test always decides
enqueue(id, kind, interactive) ==
    LET exist == FALSE
        last_ms == -1
    IN  IF ~exist \/ last_ms < 0 THEN TRUE ELSE FALSE

\* the set main_batches[kind] denotes; an index past the end of the array
\* is outside the object: the adjacent member extra_batches can be read in
\* its place (element kind - batched_kind_count), or the access can end
\* the process
BatchRef(st, kind) ==
    IF kind < batched_kind_count
    THEN {[abort |-> FALSE, inside |-> TRUE, batch |-> st.main[kind]]}
    ELSE {[abort |-> TRUE, inside |-> FALSE, batch |-> {}],
          [abort |-> FALSE, inside |-> FALSE,
           batch |-> st.extra[kind - batched_kind_count]]}

\* a flush that also forgets the touch counters
flush_forgetting_candidates(st, kind) ==
    {Result([st EXCEPT !.candidates = <<>>], "none", 0, FALSE, <<>>)}

\* arachne::flush
flush(st, kind) ==
    LET Fetched(b, size, f) ==
            [Result(IF b.inside
                    THEN [st EXCEPT !.main[kind] = f.batch]
                    ELSE [st EXCEPT !.extra[kind - batched_kind_count]
                                        = f.batch],
                    f.exc, 0,
                    f.exc = "none" /\ size > Cardinality(f.batch),
                    f.reqs) EXCEPT !.oob = ~b.inside]
    IN  UNION {
          IF b.abort
          THEN {[Result(st, "terminate", 0, FALSE, <<>>) EXCEPT !.oob = TRUE]}
          ELSE {Fetched(b, Cardinality(b.batch), f) :
                f \in fetch_json(b.batch, kind)} :
          b \in BatchRef(st, kind)}

\* queue_size that counts the promoted identifiers of the extra queue too
queue_size_with_extra(st, kind) ==
    IF kind = any
    THEN LET RECURSIVE Sum(_)
             Sum(i) == IF i = batched_kind_count THEN 0
                       ELSE Cardinality(st.main[i] \cup st.extra[i])
                            + Sum(i + 1)
         IN  Sum(0)
    ELSE IF kind >= batched_kind_count THEN 0
    ELSE Cardinality(st.main[kind] \cup st.extra[kind])

\* arachne::queue_size
queue_size(st, kind) ==
    IF kind = any
    THEN LET RECURSIVE Sum(_)
             Sum(i) == IF i = batched_kind_count THEN 0
                       ELSE Cardinality(st.main[i]) + Sum(i + 1)
         IN  Sum(0)
    ELSE IF kind >= batched_kind_count THEN 0
    ELSE Cardinality(st.main[kind])

\* add_entity that selects the group before it validates the identifier
add_entity_group_first(st, id_with_prefix, force, name) ==
    LET Queued(s2, kind, size) ==
            {Result(s2, "none", size, FALSE, <<>>)}
        Grouped(s1, canonical, kind, size) ==
            Queued([s1 EXCEPT !.main[kind] = @ \cup {canonical}], kind, size)
        Selected(g, canonical) ==
            Grouped([g EXCEPT !.groups[g.current] = @ \cup {id_with_prefix}],
                    canonical, identify(canonical),
                    Cardinality(g.groups[g.current] \cup {id_with_prefix}))
        Rooted(g, root) ==
            IF root.exc # "none"
            THEN {Result(g, root.exc, 0, FALSE, <<>>)}
            ELSE Selected(g, root.val)
    IN  UNION {Rooted(g.st, entity_root(id_with_prefix)) :
               g \in select_group(st, name)}

\* arachne::add_entity
add_entity(st, id_with_prefix, force, name) ==
    LET Flushed(size, f) ==
            IF f.exc # "none"
            THEN Result(f.st, f.exc, 0, FALSE, f.reqs)
            ELSE Result(f.st, "none", size, FALSE, f.reqs)
        Queued(s2, kind, size) ==
            IF Cardinality(s2.main[kind]) >= batch_threshold
            THEN {Flushed(size, f) : f \in flush(s2, kind)}
            ELSE {Result(s2, "none", size, FALSE, <<>>)}
        Grouped(s1, canonical, kind, size) ==
            IF force \/ enqueue(canonical, kind, FALSE)
            THEN Queued([s1 EXCEPT !.main[kind] = @ \cup {canonical}],
                        kind, size)
            ELSE {Result(s1, "none", size, FALSE, <<>>)}
        Inserted(s1, canonical) ==
            Grouped(s1, canonical, identify(canonical),
                    Cardinality(s1.groups[s1.current]))
        Selected(g, canonical) ==
            Inserted([g EXCEPT !.groups[g.current] = @ \cup {id_with_prefix}],
                     canonical)
        Rooted(root) ==
            IF root.exc # "none"
            THEN {Result(st, root.exc, 0, FALSE, <<>>)}
            ELSE UNION {Selected(g.st, root.val) :
                        g \in select_group(st, name)}
    IN  Rooted(entity_root(id_with_prefix))

\* the loop of add_ids over the remaining numerals, from the object st with
\* the requests reqs already sent
RECURSIVE add_ids_loop(_, _, _, _, _)
add_ids_loop(st, ids, kind, last_size, reqs) ==
    LET Added(a) ==
            IF a.exc # "none"
            THEN {Result(a.st, a.exc, 0, FALSE, reqs \o a.reqs)}
            ELSE add_ids_loop(a.st, Tail(ids), kind, a.ret, reqs \o a.reqs)
        Normalized(n) ==
            IF n.exc # "none"
            THEN {Result(st, n.exc, 0, FALSE, reqs)}
            ELSE UNION {Added(a) :
                        a \in add_entity(st, n.val, FALSE, st.current)}
    IN  IF ids = <<>>
        THEN {Result(st, "none", last_size, FALSE, reqs)}
        ELSE Normalized(normalize(Head(ids), kind))

\* add_ids that opens the group with new_group instead of select_group
add_ids_new_group(st, ids, kind, name) ==
    IF kind = any \/ kind = unknown
    THEN {Result(st, "invalid_argument", 0, FALSE, <<>>)}
    ELSE UNION {add_ids_loop(g.st, ids, kind,
                             Cardinality(g.st.groups[g.st.current]), <<>>) :
                g \in new_group(st, name)}

\* arachne::add_ids
add_ids(st, ids, kind, name) ==
    IF kind = any \/ kind = unknown
    THEN {Result(st, "invalid_argument", 0, FALSE, <<>>)}
    ELSE UNION {add_ids_loop(g.st, ids, kind,
                             Cardinality(g.st.groups[g.st.current]), <<>>) :
                g \in select_group(st, name)}

\* touch_entity that promotes the string it was given, not its root
touch_entity_promoting_verbatim(st, id_with_prefix) ==
    LET Promoted(s1, kind) ==
            {Result([s1 EXCEPT !.extra[kind] = @ \cup {id_with_prefix}],
                    "none", 0, TRUE, <<>>)}
        Rooted(s1, root) ==
            IF root.exc # "none"
            THEN {Result(s1, "terminate", 0, FALSE, <<>>)}
            ELSE Promoted(s1, identify(root.val))
        Counted(count) ==
            IF count >= candidates_threshold
            THEN Rooted([st EXCEPT !.candidates = Put(@, id_with_prefix, count)],
                        entity_root(id_with_prefix))
            ELSE {Result([st EXCEPT
                            !.candidates = Put(@, id_with_prefix, count)],
                         "none", 0, FALSE, <<>>)}
    IN  Counted(IF id_with_prefix \in DOMAIN st.candidates
                THEN st.candidates[id_with_prefix] + 1 ELSE 1)

\* arachne::touch_entity (noexcept: the throw of entity_root ends the
\* process)
touch_entity(st, id_with_prefix) ==
    LET Promoted(s1, canonical, kind) ==
            {Result([s1 EXCEPT !.extra[kind] = @ \cup {canonical}],
                    "none", 0, TRUE, <<>>)}
        Rooted(s1, root) ==
            IF root.exc # "none"
            THEN {Result(s1, "terminate", 0, FALSE, <<>>)}
            ELSE Promoted(s1, root.val, identify(root.val))
        Counted(count) ==
            IF count >= candidates_threshold
            THEN Rooted([st EXCEPT !.candidates = Put(@, id_with_prefix, count)],
                        entity_root(id_with_prefix))
            ELSE {Result([st EXCEPT
                            !.candidates = Put(@, id_with_prefix, count)],
                         "none", 0, FALSE, <<>>)}
    IN  Counted(IF id_with_prefix \in DOMAIN st.candidates
                THEN st.candidates[id_with_prefix] + 1 ELSE 1)

\* the ways an exception leaves touch_ids: the definition lets it
\* propagate, the declaration in the class is noexcept and ends the process
touch_ids_throw(exc) == {exc, "terminate"}

\* the loop of touch_ids over the remaining numerals, added counting the
\* true results so far
RECURSIVE touch_ids_loop(_, _, _, _)
touch_ids_loop(st, ids, kind, added) ==
    LET Touched(t) ==
            IF t.exc # "none"
            THEN {Result(t.st, t.exc, 0, FALSE, <<>>)}
            ELSE touch_ids_loop(t.st, Tail(ids), kind,
                                added + (IF t.ok THEN 1 ELSE 0))
        Normalized(n) ==
            IF n.exc # "none"
            THEN {Result(st, e, 0, FALSE, <<>>) : e \in touch_ids_throw(n.exc)}
            ELSE UNION {Touched(t) : t \in touch_entity(st, n.val)}
    IN  IF ids = <<>>
        THEN {Result(st, "none", added, FALSE, <<>>)}
        ELSE Normalized(normalize(Head(ids), kind))

\* arachne::touch_ids
touch_ids(st, ids, kind) ==
    IF kind = any \/ kind = unknown
    THEN {Result(st, e, 0, FALSE, <<>>) :
          e \in touch_ids_throw("invalid_argument")}
    ELSE touch_ids_loop(st, ids, kind, 0)

(***************************************************************************)
(* http_client                                                             *)
(***************************************************************************)
\* network_options, fixed when the client is constructed
max_retries == 3
retry_base_ms == 200
retry_max_ms == 3000
\* libcurl result codes
CURLE_OK == 0
CURLE_PARTIAL_FILE == 18
CURLE_OPERATION_TIMEDOUT == 28
\* number of elements of network_metrics::statuses
status_slots == 600

Min(a, b) == IF a < b THEN a ELSE b
Max(a, b) == IF a > b THEN a ELSE b

\* what one physical attempt yields: the status code and libcurl result
\* code of the response, the size of its body, the time spent in libcurl
\* and the seconds CURLINFO_RETRY_AFTER reports (0 without a header)
Response(status, error, size, elapsed, hint) ==
    [status_code |-> status, error_code |-> error, size |-> size,
     elapsed |-> elapsed, retry_after |-> hint]

r200 == Response(200, CURLE_OK, 2, 1, 0)
r204 == Response(204, CURLE_OK, 0, 1, 0)
r302 == Response(302, CURLE_OK, 0, 1, 0)
r404 == Response(404, CURLE_OK, 1, 1, 0)
r408 == Response(408, CURLE_OK, 0, 2, 0)
r429 == Response(429, CURLE_OK, 0, 1, 1)
r503 == Response(503, CURLE_OK, 1, 1, 0)
r503_after5 == Response(503, CURLE_OK, 1, 1, 5)
r999 == Response(999, CURLE_OK, 0, 1, 0)
timed_out == Response(0, CURLE_OPERATION_TIMEDOUT, 0, 3, 0)
partial == Response(200, CURLE_PARTIAL_FILE, 1, 2, 0)

\* what the server and the network do to the successive attempts of one
\* logical call; the last entry repeats for further attempts
Scripts ==
    {<<r200>>, <<r404>>, <<r503>>,
     <<r503, r503, r503, r200>>,
     <<timed_out, r204>>,
     <<r429, timed_out>>,
     <<r408, r302>>,
     <<r503_after5, r200>>,
     <<partial, r999>>}
Outcome(script, attempt) == script[Min(attempt, Len(script))]

\* the values drawn from uniform_int_distribution(0, base) that the model
\* follows: both ends of the range
Jitter(base) == {0, base}

\* urls handed to a call: one curl_url_set accepts, one it rejects
UrlArgs == {"https://example.org/w/api.php", "http://[bad"}
\* a query parameter: appended is whether curl_url_set takes "key=value"
\* as a further part of the query
parameter(key, value, appended) ==
    [key |-> key, value |-> value, appended |-> appended]
\* parameter lists handed to a call: none, two that curl appends, and one
\* whose second parameter curl refuses
ParamArgs ==
    {<<>>,
     <<parameter("action", "wbgetentities", TRUE),
       parameter("format", "json", TRUE)>>,
     <<parameter("format", "json", TRUE),
       parameter("ids", "Q1", FALSE)>>}
\* whether curl_url() hands out a handle
HandleArgs == BOOLEAN
Methods == {"get", "post_form", "post_raw"}
Threads == {1, 2}

\* network_metrics::network_metrics; statuses holds the codes counted so
\* far, every other element of the array being 0
network_metrics ==
    [requests |-> 0, retries |-> 0, sleep_ms |-> 0, network_ms |-> 0,
     bytes_received |-> 0, statuses |-> <<>>]

\* the messages of the std::runtime_error build_url throws
curl_url_error == <<"curl_url failed">>
url_error == <<"failed to set request url">>
query_error == <<"failed to append query parameter">>
build_errors == {curl_url_error, url_error, query_error}
\* http_client::build_url: the message of what it throws, <<>> when it
\* returns the handle. It throws when curl_url() gives no handle, when
\* curl_url_set rejects the url, and when it refuses a query parameter.
build_url(handle, url, params) ==
    IF ~handle THEN curl_url_error
    ELSE IF url = "http://[bad" THEN url_error
    ELSE IF \E i \in DOMAIN params : ~params[i].appended THEN query_error
    ELSE <<>>

\* update_metrics without the bounds test of the histogram
update_metrics_unchecked(m, response, elapsed) ==
    [m EXCEPT !.requests = @ + 1,
              !.network_ms = @ + elapsed,
              !.statuses = Put(@, response.status_code,
                               CountIn(@, response.status_code) + 1),
              !.bytes_received = @ + response.size]

\* http_client::update_metrics
update_metrics(m, response, elapsed) ==
    [m EXCEPT !.requests = @ + 1,
              !.network_ms = @ + elapsed,
              !.statuses = IF response.status_code < status_slots
                           THEN Put(@, response.status_code,
                                    CountIn(@, response.status_code) + 1)
                           ELSE @,
              !.bytes_received = @ + response.size]

\* http_client::status_good
status_good(response) ==
    /\ response.error_code = CURLE_OK
    /\ response.status_code >= 200
    /\ response.status_code < 300

\* status_retry that retries every client error too
status_retry_any_4xx(response, net_ok) ==
    \/ ~net_ok
    \/ (response.status_code >= 400 /\ response.status_code < 600)

\* http_client::status_retry
status_retry(response, net_ok) ==
    \/ ~net_ok
    \/ response.status_code = 429
    \/ response.status_code = 408
    \/ (response.status_code >= 500 /\ response.status_code < 600)

\* next_delay without the cap
next_delay_uncapped(attempt, d) ==
    LET base == retry_base_ms * (2 ^ (attempt - 1))
    IN  base + d

\* http_client::next_delay, d being the value the distribution draws
next_delay(attempt, d) ==
    LET base == retry_base_ms * (2 ^ (attempt - 1))
    IN  Min(base + d, retry_max_ms)

\* http_client::apply_server_retry_hint
apply_server_retry_hint(sleep_ms, retry_after) ==
    IF retry_after >= 0
    THEN Max(sleep_ms, retry_after * 1000)
    ELSE sleep_ms

\* the messages of the std::runtime_error a call throws: the text and the
\* libcurl result code or the status code it carries (<<>> while nothing
\* is thrown)
curl_error(response) == <<"curl error: ", response.error_code>>
http_error(response) == <<"http error: ", response.status_code>>

\* how one iteration of a call's loop ends: the metrics afterwards, the
\* step taken ("return", "retry" or "throw"), the message of the
\* std::runtime_error thrown and the time to sleep before the next attempt
Iteration(m, step, what, sleep_ms) ==
    [metrics |-> m, step |-> step, what |-> what, sleep_ms |-> sleep_ms]

\* get that allows one retry fewer
get_one_retry_fewer(m, attempt, response, d) ==
    LET Retry(m1, sleep_ms) ==
            Iteration([m1 EXCEPT !.retries = @ + 1,
                                 !.sleep_ms = @ + sleep_ms],
                      "retry", <<>>, sleep_ms)
        Updated(m1, net_ok) ==
            IF status_good(response)
            THEN Iteration(m1, "return", <<>>, 0)
            ELSE IF attempt < max_retries /\ status_retry(response, net_ok)
            THEN Retry(m1, apply_server_retry_hint(next_delay(attempt, d),
                                                   response.retry_after))
            ELSE IF ~net_ok
            THEN Iteration(m1, "throw", curl_error(response), 0)
            ELSE Iteration(m1, "throw", http_error(response), 0)
    IN  Updated(update_metrics(m, response, response.elapsed),
                response.error_code = CURLE_OK)

\* get that reports every failure as an http error
get_status_failure_only(m, attempt, response, d) ==
    LET Retry(m1, sleep_ms) ==
            Iteration([m1 EXCEPT !.retries = @ + 1,
                                 !.sleep_ms = @ + sleep_ms],
                      "retry", <<>>, sleep_ms)
        Updated(m1, net_ok) ==
            IF status_good(response)
            THEN Iteration(m1, "return", <<>>, 0)
            ELSE IF attempt <= max_retries /\ status_retry(response, net_ok)
            THEN Retry(m1, apply_server_retry_hint(next_delay(attempt, d),
                                                   response.retry_after))
            ELSE Iteration(m1, "throw", http_error(response), 0)
    IN  Updated(update_metrics(m, response, response.elapsed),
                response.error_code = CURLE_OK)

\* one iteration of the loop of http_client::get
get(m, attempt, response, d) ==
    LET Retry(m1, sleep_ms) ==
            Iteration([m1 EXCEPT !.retries = @ + 1,
                                 !.sleep_ms = @ + sleep_ms],
                      "retry", <<>>, sleep_ms)
        Updated(m1, net_ok) ==
            IF status_good(response)
            THEN Iteration(m1, "return", <<>>, 0)
            ELSE IF attempt <= max_retries /\ status_retry(response, net_ok)
            THEN Retry(m1, apply_server_retry_hint(next_delay(attempt, d),
                                                   response.retry_after))
            ELSE IF ~net_ok
            THEN Iteration(m1, "throw", curl_error(response), 0)
            ELSE Iteration(m1, "throw", http_error(response), 0)
    IN  Updated(update_metrics(m, response, response.elapsed),
                response.error_code = CURLE_OK)

\* one iteration of the loop of http_client::post_form
post_form(m, attempt, response, d) ==
    LET Retry(m1, sleep_ms) ==
            Iteration([m1 EXCEPT !.retries = @ + 1,
                                 !.sleep_ms = @ + sleep_ms],
                      "retry", <<>>, sleep_ms)
        Updated(m1, net_ok) ==
            IF status_good(response)
            THEN Iteration(m1, "return", <<>>, 0)
            ELSE IF attempt <= max_retries /\ status_retry(response, net_ok)
            THEN Retry(m1, apply_server_retry_hint(next_delay(attempt, d),
                                                   response.retry_after))
            ELSE IF ~net_ok
            THEN Iteration(m1, "throw", curl_error(response), 0)
            ELSE Iteration(m1, "throw", http_error(response), 0)
    IN  Updated(update_metrics(m, response, response.elapsed),
                response.error_code = CURLE_OK)

\* post_raw that sleeps the computed backoff, whatever the server hints
post_raw_unhinted(m, attempt, response, d) ==
    LET Retry(m1, sleep_ms) ==
            Iteration([m1 EXCEPT !.retries = @ + 1,
                                 !.sleep_ms = @ + sleep_ms],
                      "retry", <<>>, sleep_ms)
        Updated(m1, net_ok) ==
            IF status_good(response)
            THEN Iteration(m1, "return", <<>>, 0)
            ELSE IF attempt <= max_retries /\ status_retry(response, net_ok)
            THEN Retry(m1, next_delay(attempt, d))
            ELSE IF ~net_ok
            THEN Iteration(m1, "throw", curl_error(response), 0)
            ELSE Iteration(m1, "throw", http_error(response), 0)
    IN  Updated(update_metrics(m, response, response.elapsed),
                response.error_code = CURLE_OK)

\* one iteration of the loop of http_client::post_raw
post_raw(m, attempt, response, d) ==
    LET Retry(m1, sleep_ms) ==
            Iteration([m1 EXCEPT !.retries = @ + 1,
                                 !.sleep_ms = @ + sleep_ms],
                      "retry", <<>>, sleep_ms)
        Updated(m1, net_ok) ==
            IF status_good(response)
            THEN Iteration(m1, "return", <<>>, 0)
            ELSE IF attempt <= max_retries /\ status_retry(response, net_ok)
            THEN Retry(m1, apply_server_retry_hint(next_delay(attempt, d),
                                                   response.retry_after))
            ELSE IF ~net_ok
            THEN Iteration(m1, "throw", curl_error(response), 0)
            ELSE Iteration(m1, "throw", http_error(response), 0)
    IN  Updated(update_metrics(m, response, response.elapsed),
                response.error_code = CURLE_OK)

(***************************************************************************)
(* pheidippides: the retry sleep of get_with_retries                       *)
(***************************************************************************)
\* opt.retry_base_ms and opt.retry_max_ms of the courier
courier_retry_base_ms == 200
courier_retry_max_ms == 3000

\* a Retry-After header: <<>> when the response has none, else what it
\* holds: <<"seconds", n>> for a decimal number, <<"date", n>> for an
\* HTTP-date in GMT that lies n seconds after the current time,
\* <<"text">> for anything else
HeaderArgs ==
    {<<>>, <<"text">>, <<"seconds", -1>>, <<"seconds", 0>>, <<"seconds", 1>>,
     <<"seconds", 5>>, <<"date", -3>>, <<"date", 2>>}

\* parse_retry: the milliseconds to wait, -1 without a usable header; a
\* negative number is no date either
parse_retry(header) ==
    IF header = <<>> THEN -1
    ELSE IF header[1] = "seconds" /\ header[2] >= 0 THEN header[2] * 1000
    ELSE IF header[1] = "date"
    THEN IF header[2] * 1000 > 0 THEN header[2] * 1000 ELSE 0
    ELSE -1

\* jitter_ms, d being the value the distribution draws
jitter_ms(base, cap, d) == Min(base + d, cap)

\* the sleep get_with_retries computes before the next attempt
get_with_retries_sleep(attempt, d, header) ==
    LET Hinted(sleep_ms, ra) ==
            IF ra >= 0 THEN Min(sleep_ms, ra) ELSE sleep_ms
    IN  Hinted(jitter_ms(courier_retry_base_ms * (2 ^ (attempt - 1)),
                         courier_retry_max_ms, d),
               parse_retry(header))

(***************************************************************************)
(* The state machine: one action per public operation.                     *)
(***************************************************************************)
NoCall == [op |-> "none", id |-> <<>>, ids |-> <<>>, kind |-> unknown,
           name |-> "", member |-> FALSE, exc |-> "none", ret |-> 0,
           ok |-> FALSE, reqs |-> <<>>, oob |-> FALSE]

\* no function applied yet
NoApplication == [op |-> "none", input |-> <<>>, output |-> <<>>]

\* no backoff computed yet, no fetch made yet
NoBackoff ==
    [by |-> "none", attempt |-> 0, d |-> 0, retry_after |-> -1,
     header |-> <<>>, computed |-> 0, sleep_ms |-> 0]
NoFetch ==
    [op |-> "none", batch |-> {}, kind |-> unknown, exc |-> "none",
     reqs |-> <<>>, json |-> {}, attempts |-> 0, docs |-> <<>>,
     server |-> <<>>]

\* a thread outside any call of the client
Idle ==
    [pc |-> "idle", method |-> "none", script |-> <<>>, attempt |-> 0,
     requests0 |-> 0, retries0 |-> 0, what |-> <<>>, response |-> <<>>,
     sleep_ms |-> 0]

Init ==
    /\ main_batches = [k \in 0..(batched_kind_count - 1) |-> {}]
    /\ extra_batches = [k \in 0..(batched_kind_count - 1) |-> {}]
    /\ groups = <<>>
    /\ candidates = <<>>
    /\ current_group = ""
    /\ running = TRUE
    /\ calls = 0
    /\ last = NoCall
    /\ metrics = network_metrics
    /\ mu = 0
    /\ thread = [t \in Threads |-> Idle]
    /\ logical_calls = 0
    /\ backoff = NoBackoff
    /\ fetched = NoFetch
    /\ applied = NoApplication

\* the object and the call record after a call with outcome r
Becomes(r, call) ==
    /\ main_batches' = r.st.main
    /\ extra_batches' = r.st.extra
    /\ groups' = r.st.groups
    /\ candidates' = r.st.candidates
    /\ current_group' = r.st.current
    /\ running' = (r.exc # "terminate")
    /\ calls' = calls + 1
    /\ last' = [call EXCEPT !.exc = r.exc, !.ret = r.ret, !.ok = r.ok,
                            !.reqs = r.reqs, !.oob = r.oob]
    /\ UNCHANGED <<http_vars, courier_vars, utils_vars>>

CanCall == running /\ calls < MaxCalls

\* the group a call with group argument name works on: the named group, or
\* the current group for the empty name
Target(name) == IF name = "" THEN current_group ELSE name
\* its members before the call (none while the group does not exist)
Members(name) ==
    IF Target(name) \in DOMAIN groups THEN groups[Target(name)] ELSE {}

NewGroup ==
    /\ CanCall
    /\ \E name \in NameArgs :
         \E r \in new_group(Self, name) :
            Becomes(r, [NoCall EXCEPT !.op = "new_group", !.name = name])

AddEntity ==
    /\ CanCall
    /\ \E id \in AddArgs, force \in BOOLEAN, name \in NameArgs :
         \E r \in add_entity(Self, id, force, name) :
            Becomes(r, [NoCall EXCEPT !.op = "add_entity", !.id = id,
                                      !.name = name,
                                      !.member = id \in Members(name)])

AddIds ==
    /\ CanCall
    /\ \E ids \in NumLists, kind \in KindArgs,
          name \in NameArgs :
         \E r \in add_ids(Self, ids, kind, name) :
            Becomes(r, [NoCall EXCEPT !.op = "add_ids", !.ids = ids,
                                      !.kind = kind, !.name = name])

TouchEntity ==
    /\ CanCall
    /\ \E id \in TouchArgs :
         /\ id \in DOMAIN candidates => candidates[id] < MaxTouch
         /\ \E r \in touch_entity(Self, id) :
               Becomes(r, [NoCall EXCEPT !.op = "touch_entity", !.id = id])

TouchIds ==
    /\ CanCall
    /\ \E ids \in NumLists, kind \in KindArgs :
         /\ \A i \in DOMAIN ids :
               normalize(ids[i], kind).val \in DOMAIN candidates
                  => candidates[normalize(ids[i], kind).val] < MaxTouch
         /\ \E r \in touch_ids(Self, ids, kind) :
               Becomes(r, [NoCall EXCEPT !.op = "touch_ids", !.ids = ids,
                                         !.kind = kind])

\* a direct call of select_group, which returns nothing
SelectGroup ==
    /\ CanCall
    /\ \E name \in NameArgs :
         \E r \in select_group(Self, name) :
            Becomes([r EXCEPT !.ok = FALSE],
                    [NoCall EXCEPT !.op = "select_group", !.name = name])

Flush ==
    /\ CanCall
    /\ \E kind \in FlushArgs :
         \E r \in flush(Self, kind) :
            Becomes(r, [NoCall EXCEPT !.op = "flush", !.kind = kind])

Next ==
    \/ NewGroup \/ SelectGroup \/ AddEntity \/ AddIds
    \/ TouchEntity \/ TouchIds \/ Flush

Spec == Init /\ [][Next]_vars

(***************************************************************************)
(* The transport: threads calling get, post_form and post_raw on one       *)
(* http_client. A thread is "idle" outside a call, "blocked" on the mutex  *)
(* at the head of the call, at "request" before a physical attempt,        *)
(* asleep at "sleep" between two attempts, and at "returned" or "thrown"   *)
(* when the call has left.                                                 *)
(***************************************************************************)
\* the iteration of the loop of the method a thread is in
Iterate(method, m, attempt, response, d) ==
    CASE method = "get" -> get(m, attempt, response, d)
      [] method = "post_form" -> post_form(m, attempt, response, d)
      [] method = "post_raw" -> post_raw(m, attempt, response, d)

\* a thread enters get, post_form or post_raw and reaches the lock_guard
Enter(t) ==
    /\ thread[t].pc = "idle"
    /\ logical_calls < MaxLogicalCalls
    /\ \E method \in Methods :
         thread' = [thread EXCEPT ![t] = [Idle EXCEPT !.pc = "blocked",
                                                      !.method = method]]
    /\ logical_calls' = logical_calls + 1
    /\ UNCHANGED <<metrics, mu>>
    /\ UNCHANGED <<arachne_vars, courier_vars, utils_vars>>

\* the call without its lock_guard: build_url runs whoever holds the mutex
Lock_unguarded(t) ==
    /\ thread[t].pc = "blocked"
    /\ \E handle \in HandleArgs, url \in UrlArgs, params \in ParamArgs :
         IF build_url(handle, url, params) = <<>>
         THEN /\ \E script \in Scripts :
                    thread' = [thread EXCEPT
                                  ![t].pc = "request",
                                  ![t].script = script,
                                  ![t].attempt = 1,
                                  ![t].requests0 = metrics.requests,
                                  ![t].retries0 = metrics.retries]
              /\ mu' = t
         ELSE /\ thread' = [thread EXCEPT
                               ![t].pc = "thrown",
                               ![t].what = build_url(handle, url, params),
                               ![t].requests0 = metrics.requests,
                               ![t].retries0 = metrics.retries]
              /\ mu' = 0
    /\ UNCHANGED <<metrics, logical_calls>>
    /\ UNCHANGED <<arachne_vars, courier_vars, utils_vars>>

\* the lock_guard takes the mutex and build_url runs: what build_url
\* throws leaves the call, which releases the mutex
Lock(t) ==
    /\ thread[t].pc = "blocked"
    /\ mu = 0
    /\ \E handle \in HandleArgs, url \in UrlArgs, params \in ParamArgs :
         IF build_url(handle, url, params) = <<>>
         THEN /\ \E script \in Scripts :
                    thread' = [thread EXCEPT
                                  ![t].pc = "request",
                                  ![t].script = script,
                                  ![t].attempt = 1,
                                  ![t].requests0 = metrics.requests,
                                  ![t].retries0 = metrics.retries]
              /\ mu' = t
         ELSE /\ thread' = [thread EXCEPT
                               ![t].pc = "thrown",
                               ![t].what = build_url(handle, url, params),
                               ![t].requests0 = metrics.requests,
                               ![t].retries0 = metrics.retries]
              /\ mu' = 0
    /\ UNCHANGED <<metrics, logical_calls>>
    /\ UNCHANGED <<arachne_vars, courier_vars, utils_vars>>

\* one physical attempt and what the loop does with its response
Attempt(t) ==
    /\ thread[t].pc = "request"
    /\ LET response == Outcome(thread[t].script, thread[t].attempt)
           Ends(i) ==
               /\ metrics' = i.metrics
               /\ thread' = [thread EXCEPT
                     ![t].pc = CASE i.step = "return" -> "returned"
                                 [] i.step = "throw" -> "thrown"
                                 [] i.step = "retry" -> "sleep",
                     ![t].what = i.what,
                     ![t].response = response,
                     ![t].sleep_ms = i.sleep_ms]
               /\ mu' = IF i.step = "retry" THEN t ELSE 0
       IN  \E d \in Jitter(retry_base_ms * (2 ^ (thread[t].attempt - 1))) :
              Ends(Iterate(thread[t].method, metrics, thread[t].attempt,
                           response, d))
    /\ UNCHANGED logical_calls
    /\ UNCHANGED <<arachne_vars, courier_vars, utils_vars>>

\* sleep_for returns and the loop continues with the next attempt
Wake(t) ==
    /\ thread[t].pc = "sleep"
    /\ thread' = [thread EXCEPT ![t].pc = "request",
                                ![t].attempt = @ + 1]
    /\ UNCHANGED <<metrics, mu, logical_calls>>
    /\ UNCHANGED <<arachne_vars, courier_vars, utils_vars>>

\* the caller has taken the response or the exception
Leave(t) ==
    /\ thread[t].pc \in {"returned", "thrown"}
    /\ thread' = [thread EXCEPT ![t] = Idle]
    /\ UNCHANGED <<metrics, mu, logical_calls>>
    /\ UNCHANGED <<arachne_vars, courier_vars, utils_vars>>

NextTransport ==
    \E t \in Threads :
        Enter(t) \/ Lock(t) \/ Attempt(t) \/ Wake(t) \/ Leave(t)

SpecTransport == Init /\ [][NextTransport]_vars

(***************************************************************************)
(* The backoff computations, applied to an attempt number, a draw of the   *)
(* jitter distribution and a server hint.                                  *)
(***************************************************************************)
\* the draws followed of uniform_int_distribution(0, base)
Draws(base) == {(base * i) \div DrawParts : i \in 0..DrawParts}
\* the seconds CURLINFO_RETRY_AFTER reports (0 without a header; -1 is
\* the value the variable keeps when curl_easy_getinfo fails)
RetryAfterArgs == {-1, 0, 1, 5}

\* the retry branch of http_client::get: next_delay, then
\* apply_server_retry_hint
HttpBackoff ==
    /\ backoff.by = "none"
    /\ \E attempt \in 1..MaxAttempt, retry_after \in RetryAfterArgs :
         \E d \in Draws(retry_base_ms * (2 ^ (attempt - 1))) :
            backoff' = [by |-> "http_client", attempt |-> attempt, d |-> d,
                        retry_after |-> retry_after, header |-> <<>>,
                        computed |-> next_delay(attempt, d),
                        sleep_ms |->
                            apply_server_retry_hint(next_delay(attempt, d),
                                                    retry_after)]
    /\ UNCHANGED fetched
    /\ UNCHANGED <<arachne_vars, http_vars, utils_vars>>

\* the retry branch of pheidippides::get_with_retries
CourierBackoff ==
    /\ backoff.by = "none"
    /\ \E attempt \in 1..MaxAttempt, header \in HeaderArgs :
         \E d \in Draws(courier_retry_base_ms * (2 ^ (attempt - 1))) :
            backoff' = [by |-> "pheidippides", attempt |-> attempt, d |-> d,
                        retry_after |-> -1, header |-> header,
                        computed |->
                            jitter_ms(courier_retry_base_ms
                                          * (2 ^ (attempt - 1)),
                                      courier_retry_max_ms, d),
                        sleep_ms |->
                            get_with_retries_sleep(attempt, d, header)]
    /\ UNCHANGED fetched
    /\ UNCHANGED <<arachne_vars, http_vars, utils_vars>>

(***************************************************************************)
(* The courier: one fetch_json call on a batch of the caller's choice.     *)
(***************************************************************************)
FetchJson ==
    /\ fetched.op = "none"
    /\ \E batch \in SUBSET FetchIds, kind \in FetchKinds :
         \E f \in fetch_json(batch, kind) :
            fetched' = [op |-> "fetch_json", batch |-> batch, kind |-> kind,
                        exc |-> f.exc, reqs |-> f.reqs, json |-> f.json,
                        attempts |-> f.attempts, docs |-> f.docs,
                        server |-> f.server]
    /\ UNCHANGED backoff
    /\ UNCHANGED <<arachne_vars, http_vars, utils_vars>>

NextCourier == FetchJson

SpecCourier == Init /\ [][NextCourier]_vars

(***************************************************************************)
(* The free functions: one application of choose_http_method, normalize or *)
(* identify.                                                               *)
(***************************************************************************)
ChooseHttpMethod ==
    /\ applied.op = "none"
    /\ \E query \in Queries, method \in Hints, threshold \in Thresholds :
         applied' =
            [op |-> "choose_http_method",
             input |-> [query |-> query, method |-> method,
                        threshold |-> threshold],
             output |-> choose_http_method(
                            [query |-> query, method |-> method], threshold)]
    /\ UNCHANGED <<arachne_vars, http_vars, courier_vars>>

Normalize ==
    /\ applied.op = "none"
    /\ \E id \in NormalizeArgs, kind \in AllKinds :
         applied' = [op |-> "normalize",
                     input |-> [id |-> id, kind |-> kind],
                     output |-> normalize(id, kind)]
    /\ UNCHANGED <<arachne_vars, http_vars, courier_vars>>

Identify ==
    /\ applied.op = "none"
    /\ \E entity \in IdentifyArgs :
         applied' = [op |-> "identify", input |-> entity,
                     output |-> identify(entity)]
    /\ UNCHANGED <<arachne_vars, http_vars, courier_vars>>

NextUtils == ChooseHttpMethod \/ Normalize \/ Identify

SpecUtils == Init /\ [][NextUtils]_vars

NextBackoff == HttpBackoff \/ CourierBackoff

SpecBackoff == Init /\ [][NextBackoff]_vars

\* The transport with its scheduling: a thread blocked on a mutex that
\* stays free takes it, a physical attempt ends (curl runs under
\* CURLOPT_TIMEOUT_MS), and sleep_for returns.
SpecTransportFair ==
    /\ SpecTransport
    /\ \A t \in Threads :
          /\ WF_vars(Lock(t))
          /\ WF_vars(Attempt(t))
          /\ WF_vars(Wake(t))


(***************************************************************************)
(* Properties.                                                             *)
(***************************************************************************)
\* indices of the queue arrays
QueueIndex == 0..(batched_kind_count - 1)
\* the five kinds that have an endpoint of their own
BatchableKinds == {item, property, lexeme, mediainfo, entity_schema}

QueueSize(kind) == queue_size(Self, kind)

\* the identifiers a call sent, over all its requests
Sent(call) == UNION {call.reqs[i] : i \in DOMAIN call.reqs}
\* every request of the call was answered with a well-formed 2xx response
FetchesSucceed(call) == call.exc \notin ChunkFailures

\* the canonical identifier of a valid string, read off the string: the
\* part before the dash of a form or sense, else the string itself
RootOf(id) ==
    IF \E i \in DOMAIN id : id[i] = "-"
    THEN SubSeq(id, 1, (CHOOSE i \in DOMAIN id : id[i] = "-") - 1)
    ELSE id

\* C1: with every fetch succeeding, a queued canonical identifier leaves its
\* queue only in a call that sends it, a call that sends an identifier
\* leaves it unqueued, and no identifier is in two requests of one call.
C1_NoIdentifierLostOrDuplicated ==
    [][(last'.op \in {"add_entity", "add_ids", "touch_entity", "flush"}
        /\ FetchesSucceed(last') /\ ~last'.oob)
       => /\ \A k \in QueueIndex : \A id \in main_batches[k] :
                id \notin main_batches'[k] => id \in Sent(last')
          /\ \A k \in QueueIndex : main_batches'[k] \cap Sent(last') = {}
          /\ \A i, j \in DOMAIN last'.reqs :
                i # j => last'.reqs[i] \cap last'.reqs[j] = {}]_vars

\* C2: flush(kind) of a batchable kind whose main queue holds 1 to
\* batch_threshold identifiers, the fetch succeeding, returns true and
\* leaves queue_size(kind) = 0; on an empty queue it returns false and
\* sends no request.
C2_FlushEmptiesPopulatedQueue ==
    [][(last'.op = "flush" /\ last'.kind \in BatchableKinds
        /\ FetchesSucceed(last'))
       => /\ (Cardinality(main_batches[last'.kind]) \in 1..batch_threshold)
                => /\ last'.exc = "none"
                   /\ last'.ok
                   /\ queue_size(Self', last'.kind) = 0
          /\ (main_batches[last'.kind] = {})
                => /\ ~last'.ok
                   /\ last'.reqs = <<>>]_vars

\* C3: whenever add_entity has returned, its fetches having succeeded,
\* every main queue holds fewer than batch_threshold identifiers.
C3_QueuesBelowThresholdAfterAdd ==
    (last.op = "add_entity" /\ last.exc = "none")
        => \A k \in QueueIndex : Cardinality(main_batches[k]) < batch_threshold

\* C4: flush(any) stays inside the queue array, and when some batchable
\* queue is populated it clears exactly one populated kind's queue and
\* leaves every other queue as it was.
C4_FlushAnyFlushesOneKindInBounds ==
    [][(last'.op = "flush" /\ last'.kind = any /\ FetchesSucceed(last'))
       => /\ ~last'.oob
          /\ (\E k \in BatchableKinds : main_batches[k] # {})
                => \E k \in BatchableKinds :
                      /\ main_batches[k] # {}
                      /\ main_batches'[k] # main_batches[k]
                      /\ \A o \in QueueIndex \ {k} :
                            main_batches'[o] = main_batches[o]]_vars

\* C5: flush(any) called while some batchable queue is populated, the fetch
\* succeeding, returns true and lowers queue_size(any), so that repeated
\* calls reach queue_size(any) = 0.
C5_FlushAnyDrains ==
    [][(last'.op = "flush" /\ last'.kind = any /\ FetchesSucceed(last')
        /\ QueueSize(any) > 0)
       => /\ last'.ok
          /\ queue_size(Self', any) < QueueSize(any)]_vars

\* C6: one successful flush(kind) sends at most one request of at most
\* batch_threshold identifiers and removes from the queue exactly the
\* identifiers it sent.
C6_FlushSendsOneChunkAndRemovesIt ==
    [][(last'.op = "flush" /\ last'.kind \in BatchableKinds
        /\ last'.exc = "none")
       => /\ Len(last'.reqs) <= 1
          /\ Cardinality(Sent(last')) <= batch_threshold
          /\ main_batches'[last'.kind] = main_batches[last'.kind] \ Sent(last')
      ]_vars

\* C7: a successful flush(kind) of a kind whose main and extra queues fit
\* one chunk sends every identifier of the extra queue and removes it from
\* the extra queue.
C7_FlushSendsExtraQueue ==
    [][(last'.op = "flush" /\ last'.kind \in BatchableKinds
        /\ last'.exc = "none"
        /\ Cardinality(main_batches[last'.kind]
                       \cup extra_batches[last'.kind]) <= batch_threshold)
       => \A id \in extra_batches[last'.kind] :
             /\ id \in Sent(last')
             /\ id \notin extra_batches'[last'.kind]]_vars

\* C8: add_entity of an identifier that is already in the target group and
\* whose canonical identifier is still queued returns the size the group
\* already had, leaves the group as it was and raises no queue_size.
C8_AddEntityIdempotent ==
    [][(last'.op = "add_entity" /\ last'.id \in Members(last'.name)
        /\ \E k \in QueueIndex : RootOf(last'.id) \in main_batches[k])
       => /\ last'.exc = "none"
                => last'.ret = Cardinality(Members(last'.name))
          /\ Target(last'.name) \in DOMAIN groups'
          /\ groups'[Target(last'.name)] = Members(last'.name)
          /\ \A k \in QueueIndex \cup {any} :
                queue_size(Self', k) <= QueueSize(k)]_vars

C8_Witness ==
    /\ last.op = "add_entity" /\ last.id = Q1 /\ last.member
    /\ last.exc = "none" /\ last.ret = 1
    /\ groups[current_group] = {Q1}
    /\ QueueSize(item) = 1

\* C9: add_entity of a form or sense identifier puts the verbatim string
\* into the group, which grows by one unless it held the string, and puts
\* only the lexeme root into the lexeme main queue; no other main queue
\* changes.
C9_FormSenseQueueLexemeRoot ==
    [][(last'.op = "add_entity" /\ identify(last'.id) \in {form, sense})
       => /\ current_group' \in DOMAIN groups'
          /\ last'.id \in groups'[current_group']
          /\ groups'[current_group']
                = (IF current_group' \in DOMAIN groups
                   THEN groups[current_group'] ELSE {}) \cup {last'.id}
          /\ main_batches'[lexeme]
                = main_batches[lexeme] \cup {RootOf(last'.id)}
          /\ \A k \in QueueIndex \ {lexeme} :
                main_batches'[k] = main_batches[k]]_vars

C9_Witness ==
    /\ last.op = "add_entity" /\ last.id = L1S2 /\ ~last.member
    /\ last.exc = "none" /\ last.ret = 2
    /\ groups[current_group] = {L1F1, L1S2}
    /\ main_batches[lexeme] = {L1}
    /\ QueueSize(lexeme) = 1

\* C10: after add_entity of a form identifier has returned queue_size(form)
\* is 1, and after add_entity of a sense identifier queue_size(sense) is 1.
C10_FormSenseQueueSize ==
    (last.op = "add_entity" /\ last.exc = "none"
     /\ identify(last.id) \in {form, sense})
        => QueueSize(identify(last.id)) = 1

\* C11: add_entity of a string that identify classifies as unknown fails
\* with an invalid-argument error and changes nothing: no group is created
\* or selected, no group's members change, no queue and no candidate
\* counter changes.
C11_AddEntityRejectsUnknown ==
    [][(last'.op = "add_entity" /\ identify(last'.id) = unknown)
       => /\ last'.exc = "invalid_argument"
          /\ groups' = groups
          /\ current_group' = current_group
          /\ main_batches' = main_batches
          /\ extra_batches' = extra_batches
          /\ candidates' = candidates]_vars

C11_Witness ==
    /\ last.op = "add_entity" /\ last.id = X1 /\ last.name = "g1"
    /\ last.exc = "invalid_argument"
    /\ "g1" \notin DOMAIN groups
    /\ current_group # ""

\* the distinct numerals of a list
Numerals(ids) == {ids[i] : i \in DOMAIN ids}
\* the identifier add_ids is to make of a numeral: the kind's prefix letter
\* and the numeral, a form or sense numeral naming its lexeme
Numbered(n, kind) ==
    <<CASE kind = item -> "Q"
        [] kind = property -> "P"
        [] kind \in {lexeme, form, sense} -> "L"
        [] kind = mediainfo -> "M"
        [] kind = entity_schema -> "E">> \o to_string(n)
\* the queue add_ids is to fill for a kind
QueueOf(kind) == IF kind \in {form, sense} THEN lexeme ELSE kind

\* C12: add_ids over a list of numerals, its fetches succeeding, adds one
\* group member and one queued identifier per distinct numeral and returns
\* the resulting group size; for kind form or sense the identifiers are
\* L<n> and queue_size(lexeme) grows by the number of distinct numerals not
\* already queued.
C12_AddIdsDedups ==
    [][(last'.op = "add_ids" /\ last'.kind \notin {any, unknown}
        /\ FetchesSucceed(last'))
       => LET named == {Numbered(n, last'.kind) : n \in Numerals(last'.ids)}
              queue == QueueOf(last'.kind)
          IN  /\ last'.exc = "none"
              /\ current_group' \in DOMAIN groups'
              /\ groups'[current_group'] = Members(last'.name) \cup named
              /\ last'.ret = Cardinality(groups'[current_group'])
              /\ main_batches'[queue] = main_batches[queue] \cup named
              /\ queue_size(Self', queue)
                    = QueueSize(queue)
                      + Cardinality(named \ main_batches[queue])]_vars

\* the number of touch_entity calls made on an identifier so far
Touches(id) == CountIn(candidates, id)
\* no add_entity has queued the identifier's canonical root
NeverAdded(id) == \A k \in QueueIndex : RootOf(id) \notin main_batches[k]

\* C13: on a valid identifier that was never added, each of the first
\* candidates_threshold - 1 touch_entity calls returns true and leaves
\* queue_size as it was, the candidates_threshold-th returns true and
\* changes queue_size of the identifier's kind, and every later call
\* returns false and leaves queue_size as it was.
C13_TouchPromotesAtThreshold ==
    [][(last'.op = "touch_entity" /\ identify(last'.id) # unknown
        /\ NeverAdded(last'.id))
       => LET n == Touches(last'.id) + 1
              kind == identify(RootOf(last'.id))
          IN  /\ n < candidates_threshold
                    => /\ last'.ok
                       /\ queue_size(Self', kind) = QueueSize(kind)
              /\ n = candidates_threshold
                    => /\ last'.ok
                       /\ queue_size(Self', kind) # QueueSize(kind)
              /\ n > candidates_threshold
                    => /\ ~last'.ok
                       /\ queue_size(Self', kind) = QueueSize(kind)]_vars

\* the canonical root is in the main queue or in the extra queue
Queued(id) ==
    \E k \in QueueIndex :
        RootOf(id) \in main_batches[k] \cup extra_batches[k]
\* the counter increments a call made, over the identifiers named
RECURSIVE Increments(_)
Increments(names) ==
    IF names = {} THEN 0
    ELSE LET id == CHOOSE x \in names : TRUE
         IN  (CountIn(candidates', id) - CountIn(candidates, id))
             + Increments(names \ {id})

\* C14: touch_entity on a valid identifier returns true exactly when it
\* incremented the identifier's counter: it increments and returns true
\* when the canonical root is in neither queue, and returns false with the
\* counter unchanged when the root is queued; touch_ids returns the number
\* of increments its touches made.
C14_TouchTrueIffCounted ==
    [][/\ (last'.op = "touch_entity" /\ identify(last'.id) # unknown)
            => /\ last'.ok <=> (CountIn(candidates', last'.id)
                                    = Touches(last'.id) + 1)
               /\ ~Queued(last'.id) => last'.ok
               /\ Queued(last'.id)
                    => /\ ~last'.ok
                       /\ CountIn(candidates', last'.id) = Touches(last'.id)
       /\ (last'.op = "touch_ids" /\ last'.exc = "none")
            => last'.ret
                 = Increments({Numbered(n, last'.kind) :
                               n \in Numerals(last'.ids)})]_vars

\* C15: the touch_entity call that brings a valid identifier's count to
\* candidates_threshold inserts the canonical root into the extra queue of
\* its kind and into no other queue, and removes the identifier from the
\* candidate counter table.
C15_PromotionRemovesCounter ==
    [][(last'.op = "touch_entity" /\ identify(last'.id) # unknown
        /\ Touches(last'.id) + 1 = candidates_threshold)
       => LET root == RootOf(last'.id)
              kind == identify(root)
          IN  /\ extra_batches'
                    = [extra_batches EXCEPT ![kind] = @ \cup {root}]
              /\ main_batches' = main_batches
              /\ last'.id \notin DOMAIN candidates']_vars

\* the identifiers of all main queues, each with its queue
AllQueued(main) == UNION {{<<k, id>> : id \in main[k]} : k \in QueueIndex}

\* C16: after every call queue_size(kind) is the size of the kind's main
\* queue and queue_size(any) the number of identifiers over all main
\* queues, whatever the extra queues hold; a touch_entity or touch_ids
\* call changes no queue_size value.
C16_QueueSizeCountsMainOnly ==
    [][/\ \A k \in QueueIndex :
             queue_size(Self', k) = Cardinality(main_batches'[k])
       /\ queue_size(Self', any) = Cardinality(AllQueued(main_batches'))
       /\ last'.op \in {"touch_entity", "touch_ids"}
            => \A k \in QueueIndex \cup {any} :
                  queue_size(Self', k) = QueueSize(k)]_vars

C16_Witness ==
    /\ last.op = "touch_entity" /\ last.id = Q1 /\ last.ok
    /\ Q1 \in extra_batches[item]
    /\ main_batches[lexeme] # {}
    /\ QueueSize(item) = 0
    /\ QueueSize(any) = Cardinality(main_batches[lexeme])

\* C17: every touch_entity call on a string that identify classifies as
\* unknown returns false, lets no error escape and leaves queue_size(any)
\* and the extra queues as they were.
C17_TouchRejectsUnknown ==
    [][(last'.op = "touch_entity" /\ identify(last'.id) = unknown)
       => /\ ~last'.ok
          /\ last'.exc = "none"
          /\ running'
          /\ queue_size(Self', any) = QueueSize(any)
          /\ extra_batches' = extra_batches]_vars

\* C18: new_group returns true exactly when it created a group. With a
\* non-empty name it returns true iff the table had no group of that name;
\* with an empty name it creates a group under a name the table did not
\* have and returns true. In every case the groups that existed keep their
\* members, a created group is empty, and the named or new group is
\* current afterwards.
C18_NewGroupTrueIffCreated ==
    [][last'.op = "new_group"
       => /\ last'.exc = "none"
          /\ last'.ok <=> (DOMAIN groups' # DOMAIN groups)
          /\ \A g \in DOMAIN groups :
                g \in DOMAIN groups' /\ groups'[g] = groups[g]
          /\ \A g \in DOMAIN groups' \ DOMAIN groups :
                g = current_group' /\ groups'[g] = {}
          /\ current_group' \in DOMAIN groups'
          /\ last'.name # ""
                => /\ current_group' = last'.name
                   /\ last'.ok <=> (last'.name \notin DOMAIN groups)
          /\ last'.name = ""
                => /\ last'.ok
                   /\ current_group' \notin DOMAIN groups]_vars

\* new_group of an existing, populated group that was not current
C18_Witness ==
    /\ last.op = "new_group" /\ last.name = "g1" /\ ~last.ok
    /\ current_group = "g1"
    /\ groups["g1"] = {Q1}
    /\ Cardinality(DOMAIN groups) = 2

\* the strings an add_entity or add_ids call is to put into its group
\* (none for numerals without a concrete kind)
Given(call) ==
    IF call.op = "add_entity" THEN {call.id}
    ELSE IF call.kind \in {any, unknown} THEN {}
    ELSE {Numbered(n, call.kind) : n \in Numerals(call.ids)}

\* C19: add_entity and add_ids called with an empty group name work on the
\* group that is current at the call: the current group stays current, no
\* group is created and no other group changes, and a call that returns
\* has added its strings to the current group's members. Only when no
\* group is current does such a call create a group, which is then current.
C19_EmptyNameUsesCurrentGroup ==
    [][(last'.op \in {"add_entity", "add_ids"} /\ last'.name = "")
       => /\ current_group # ""
                => /\ current_group' = current_group
                   /\ DOMAIN groups' = DOMAIN groups
                   /\ \A g \in DOMAIN groups \ {current_group} :
                         groups'[g] = groups[g]
                   /\ groups[current_group] \subseteq groups'[current_group]
                   /\ groups'[current_group]
                         \subseteq groups[current_group] \cup Given(last')
                   /\ last'.exc = "none"
                         => Given(last') \subseteq groups'[current_group]
          /\ current_group = ""
                => \/ groups' = groups /\ current_group' = ""
                                       /\ last'.exc = "invalid_argument"
                   \/ /\ current_group' \notin DOMAIN groups
                      /\ DOMAIN groups' = DOMAIN groups \cup {current_group'}
                      /\ \A g \in DOMAIN groups : groups'[g] = groups[g]
                      /\ groups'[current_group'] \subseteq Given(last')
                      /\ last'.exc = "none"
                            => groups'[current_group'] = Given(last')]_vars

\* two calls with an empty name after new_group("g1") filled g1
C19_Witness ==
    /\ last.op = "add_ids" /\ last.name = "" /\ last.exc = "none"
    /\ last.ret = 2
    /\ current_group = "g1"
    /\ groups = [g \in {"g1"} |-> {Q3, Q1}]

\* the classes of an attempt's outcome
Success(r) ==
    r.error_code = CURLE_OK /\ r.status_code \in 200..299
Retryable(r) ==
    r.error_code # CURLE_OK \/ r.status_code \in {408, 429} \cup (500..599)
\* the call's attempts meet k retryable outcomes and then a 2xx response
MeetsRetryableRun(script, k) ==
    /\ \A i \in 1..k : Retryable(Outcome(script, i))
    /\ Success(Outcome(script, k + 1))
\* thread t leaves its logical call in this step
Leaves(t) ==
    thread[t].pc = "request" /\ thread'[t].pc \in {"returned", "thrown"}

\* C20: a logical call whose attempts meet k <= max_retries retryable
\* outcomes and then a 2xx response leaves by returning that response,
\* having made k + 1 physical attempts and k retries.
C20_RetriesThenSuccess ==
    [][\A t \in Threads : \A k \in 0..max_retries :
          (Leaves(t) /\ MeetsRetryableRun(thread[t].script, k))
             => /\ thread'[t].pc = "returned"
                /\ thread'[t].response = Outcome(thread[t].script, k + 1)
                /\ metrics'.requests - thread[t].requests0 = k + 1
                /\ metrics'.retries - thread[t].retries0 = k
                /\ thread[t].attempt = k + 1]_vars

\* three 503 responses and a 200: 4 attempts, 3 retries
C20_Witness ==
    \E t \in Threads :
        /\ thread[t].pc = "returned"
        /\ thread[t].method = "get"
        /\ thread[t].script = <<r503, r503, r503, r200>>
        /\ thread[t].response.status_code = 200
        /\ metrics.requests - thread[t].requests0 = 4
        /\ metrics.retries - thread[t].retries0 = 3
        /\ max_retries = 3

\* every attempt of the call meets a retryable outcome
AllRetryable(script) ==
    \A i \in 1..(max_retries + 1) : Retryable(Outcome(script, i))
\* thread t is inside the loop of a logical call
InCall(t) == thread[t].pc \in {"request", "sleep"}

\* C21: a logical call that has begun leaves, by returning or throwing;
\* when every attempt is retryable it leaves by throwing after
\* max_retries + 1 physical attempts and max_retries retries, with a curl
\* error if the last attempt had a transport error and else with an http
\* error that carries the status code of the last attempt.
C21_CallEndsAfterRetryBudget ==
    /\ \A t \in Threads :
          InCall(t) ~> (thread[t].pc \in {"returned", "thrown"})
    /\ [][\A t \in Threads :
             (Leaves(t) /\ AllRetryable(thread[t].script))
                => LET final == Outcome(thread[t].script, max_retries + 1)
                   IN  /\ thread'[t].pc = "thrown"
                       /\ thread'[t].response = final
                       /\ metrics'.requests - thread[t].requests0
                             = max_retries + 1
                       /\ metrics'.retries - thread[t].retries0 = max_retries
                       /\ final.error_code # CURLE_OK
                             => thread'[t].what[1] = "curl error: "
                       /\ final.error_code = CURLE_OK
                             => thread'[t].what
                                   = <<"http error: ", final.status_code>>]_vars

\* a 429 and then timeouts: the fourth attempt ends the call with a curl
\* error
C21_Witness ==
    \E t \in Threads :
        /\ thread[t].pc = "thrown"
        /\ thread[t].script = <<r429, timed_out>>
        /\ thread[t].what = <<"curl error: ", CURLE_OPERATION_TIMEDOUT>>
        /\ metrics.requests - thread[t].requests0 = 4
        /\ metrics.retries - thread[t].retries0 = 3

\* thread t completes a physical attempt in this step
Attempts(t) == thread[t].pc = "request" /\ thread'[t].pc # "request"

\* C22: the outcome of an attempt decides the next step. No transport
\* error and a 2xx status: the call returns that response. A transport
\* error or status 408, 429 or 5xx while retries remain: the call counts a
\* retry and sleeps. Any other outcome: the call throws at once an http
\* error with that status code, without sleeping and without counting a
\* retry.
C22_ClassificationDecidesStep ==
    [][\A t \in Threads :
          Attempts(t)
             => LET r == Outcome(thread[t].script, thread[t].attempt)
                IN  /\ Success(r)
                         => /\ thread'[t].pc = "returned"
                            /\ thread'[t].response = r
                    /\ (Retryable(r) /\ thread[t].attempt <= max_retries)
                         => /\ thread'[t].pc = "sleep"
                            /\ metrics'.retries = metrics.retries + 1
                    /\ (~Success(r) /\ ~Retryable(r))
                         => /\ thread'[t].pc = "thrown"
                            /\ thread'[t].what
                                  = <<"http error: ", r.status_code>>
                            /\ metrics'.retries = metrics.retries
                            /\ metrics'.sleep_ms = metrics.sleep_ms
                            /\ thread'[t].sleep_ms = 0]_vars

\* a 408 is retried, the 302 that follows ends the call on its attempt
C22_Witness ==
    \E t \in Threads :
        /\ thread[t].pc = "thrown"
        /\ thread[t].script = <<r408, r302>>
        /\ thread[t].attempt = 2
        /\ thread[t].what = <<"http error: ", 302>>
        /\ metrics.requests - thread[t].requests0 = 2
        /\ metrics.retries - thread[t].retries0 = 1

\* the status codes the responses of the model carry
StatusCodes == {Outcome(sc, i).status_code : sc \in Scripts, i \in 1..4}
\* what every step does to the metrics: an attempt of some thread counts
\* one request, the time and the body of its response, and its status if
\* that is in 0..599; retries and sleep rise only when the attempt ends in
\* a retry cycle; no other step changes the metrics; no counter falls
MetricsFollowAttempts ==
    /\ \A t \in Threads :
          Attempts(t)
             => LET r == Outcome(thread[t].script, thread[t].attempt)
                IN  /\ metrics'.requests = metrics.requests + 1
                    /\ metrics'.network_ms = metrics.network_ms + r.elapsed
                    /\ metrics'.bytes_received
                          = metrics.bytes_received + r.size
                    /\ \A c \in StatusCodes :
                          CountIn(metrics'.statuses, c)
                             = CountIn(metrics.statuses, c)
                               + (IF c = r.status_code /\ c \in 0..599
                                  THEN 1 ELSE 0)
                    /\ DOMAIN metrics'.statuses \subseteq 0..599
                    /\ thread'[t].pc = "sleep"
                          => metrics'.retries = metrics.retries + 1
                    /\ thread'[t].pc # "sleep"
                          => /\ metrics'.retries = metrics.retries
                             /\ metrics'.sleep_ms = metrics.sleep_ms
    /\ (\A t \in Threads : ~Attempts(t)) => metrics' = metrics
    /\ metrics'.requests >= metrics.requests
    /\ metrics'.retries >= metrics.retries
    /\ metrics'.sleep_ms >= metrics.sleep_ms
    /\ metrics'.network_ms >= metrics.network_ms
    /\ metrics'.bytes_received >= metrics.bytes_received
    /\ \A c \in StatusCodes :
          CountIn(metrics'.statuses, c) >= CountIn(metrics.statuses, c)
\* thread t's logical call completes in this step, by return or throw
Completes(t) ==
    /\ thread[t].pc \notin {"returned", "thrown"}
    /\ thread'[t].pc \in {"returned", "thrown"}

\* C23 as stated: the metrics follow the attempts, and every completed
\* logical call has made one attempt more than it made retries.
C23_MetricsPerAttempt ==
    [][/\ MetricsFollowAttempts
       /\ \A t \in Threads :
             Completes(t)
                => metrics'.requests - thread'[t].requests0
                      = (metrics'.retries - thread'[t].retries0) + 1]_vars

\* C23 amended: the metrics follow the attempts, and every logical call
\* that completes after build_url returned its handle has made one
\* attempt more than it made retries; a call in which build_url throws
\* (no handle, url rejected, query parameter refused) completes with no
\* attempt and no retry.
C23_MetricsPerAttemptOfStartedCall ==
    [][/\ MetricsFollowAttempts
       /\ \A t \in Threads :
             Completes(t)
                => IF thread'[t].what \in build_errors
                   THEN /\ metrics'.requests = thread'[t].requests0
                        /\ metrics'.retries = thread'[t].retries0
                   ELSE metrics'.requests - thread'[t].requests0
                           = (metrics'.retries - thread'[t].retries0) + 1]_vars

\* a partial transfer with status 200 and then a 999: two attempts, one
\* retry, and the 999 is not in the histogram
C23_Witness ==
    \E t \in Threads :
        /\ thread[t].pc = "thrown"
        /\ thread[t].script = <<partial, r999>>
        /\ metrics.requests - thread[t].requests0 = 2
        /\ metrics.retries - thread[t].retries0 = 1
        /\ CountIn(metrics.statuses, 200) >= 1
        /\ 999 \notin DOMAIN metrics.statuses
        /\ metrics.sleep_ms > 0

(***************************************************************************)
(* Backoff                                                                 *)
(***************************************************************************)
\* the backoff computed last had no server hint to follow
Unhinted ==
    \/ backoff.by = "http_client" /\ backoff.retry_after <= 0
    \/ backoff.by = "pheidippides" /\ parse_retry(backoff.header) < 0
\* the hint the backoff computed last had to follow, in milliseconds
HintMs ==
    IF backoff.by = "http_client" THEN backoff.retry_after * 1000
    ELSE parse_retry(backoff.header)
\* the exponential base of the n-th retry
Exponential(n) == retry_base_ms * (2 ^ (n - 1))

\* C24: without a server retry hint the sleep before the n-th retry is
\* min(retry_max, b + j) with b = base * 2^(n-1) and j in [0, b]; it is
\* never above retry_max, never below min(retry_max, b), and that lower
\* bound doubles with each retry until the cap applies.
C24_BackoffWithinBounds ==
    Unhinted =>
        /\ backoff.d \in 0..Exponential(backoff.attempt)
        /\ backoff.sleep_ms
               = Min(retry_max_ms, Exponential(backoff.attempt) + backoff.d)
        /\ backoff.sleep_ms <= retry_max_ms
        /\ backoff.sleep_ms >= Min(retry_max_ms, Exponential(backoff.attempt))
        /\ backoff.attempt > 1 =>
               Min(retry_max_ms, Exponential(backoff.attempt))
                   = Min(retry_max_ms, 2 * Exponential(backoff.attempt - 1))

\* the cap cuts a sleep of the client that exponent and jitter exceed
C24_Witness ==
    /\ backoff.by = "http_client"
    /\ Unhinted
    /\ Exponential(backoff.attempt) < retry_max_ms
    /\ Exponential(backoff.attempt) + backoff.d > retry_max_ms
    /\ backoff.sleep_ms = retry_max_ms

\* C25: after an attempt that carried a server retry hint the sleep is the
\* maximum of the computed backoff and the hint: never shorter than the
\* hint, even one above retry_max, and never shorter than the backoff.
C25_HintRaisesSleep ==
    (backoff.by # "none" /\ ~Unhinted) =>
        /\ backoff.sleep_ms = Max(backoff.computed, HintMs)
        /\ backoff.sleep_ms >= HintMs
        /\ backoff.sleep_ms >= backoff.computed

(***************************************************************************)
(* Serialization of logical calls                                          *)
(***************************************************************************)
\* C26: logical calls on one client are serialized. At most one thread is
\* inside the loop of get, post_form or post_raw at any time and it holds
\* the mutex; while it is, no other thread makes an attempt and the
\* metrics move only by its own attempts; so a call that completes has
\* added to the totals exactly its own attempts and retries.
C26_CallsSerialized ==
    [][/\ \A t, u \in Threads :
             (thread'[t].pc \in {"request", "sleep"}
                 /\ thread'[u].pc \in {"request", "sleep"}) => t = u
       /\ \A t \in Threads :
             thread'[t].pc \in {"request", "sleep"} => mu' = t
       /\ \A t \in Threads :
             InCall(t)
                => /\ \A u \in Threads \ {t} : ~Attempts(u)
                   /\ metrics' # metrics => Attempts(t)
       /\ \A t \in Threads :
             (Completes(t) /\ thread'[t].what \notin build_errors)
                => /\ metrics'.requests - thread[t].requests0
                         = thread[t].attempt
                   /\ metrics'.retries - thread[t].retries0
                         = thread[t].attempt - 1]_vars

\* one thread sleeps between its first and second attempt, holding the
\* mutex, while the other has called the client and waits for the mutex
C26_Witness ==
    \E t, u \in Threads :
        /\ thread[t].pc = "sleep"
        /\ thread[t].attempt = 2
        /\ mu = t
        /\ thread[u].pc = "blocked"

(***************************************************************************)
(* The courier's fetch                                                     *)
(***************************************************************************)
\* the identifiers of the batch fetched last that are of the requested kind
Requested ==
    {id \in fetched.batch :
        fetched.kind = any \/ identify(id) = fetched.kind}
\* the number of requests identifier id appears in
Appearances(id) ==
    Cardinality({i \in DOMAIN fetched.reqs : id \in fetched.reqs[i]})
\* the fetch made last ended because a request failed on the wire or its
\* response did not parse
RequestFailed == fetched.exc \in ChunkFailures
\* the number of chunks of at most opt_batch_threshold that n identifiers
\* make
ChunkCount(n) == (n + opt_batch_threshold - 1) \div opt_batch_threshold

\* C27: a fetch of a batchable kind, or of any, on a non-empty batch cuts
\* the identifiers into chunks of at most the batch size and sends one GET
\* per chunk: unless a request fails, every identifier of the requested
\* kind is in exactly one request, no request exceeds the batch size; an
\* empty batch sends nothing and yields an empty object.
C27_OneGetPerChunk ==
    (fetched.op = "fetch_json" /\ fetched.kind \in BatchableKinds \cup {any})
        => /\ fetched.batch = {}
                => /\ fetched.exc = "none"
                   /\ fetched.reqs = <<>>
                   /\ fetched.json = object
           /\ \A i \in DOMAIN fetched.reqs :
                 /\ fetched.reqs[i] # {}
                 /\ Cardinality(fetched.reqs[i]) <= opt_batch_threshold
           /\ (fetched.batch # {} /\ ~RequestFailed)
                => /\ \A id \in Requested : Appearances(id) = 1
                   /\ Len(fetched.reqs) = ChunkCount(Cardinality(Requested))

\* C28: a fetch leaves every identifier whose detected kind differs from
\* the requested kind, one that identify calls unknown included, out of
\* all requests, and does not fail because of it.
C28_MismatchesDropped ==
    (fetched.op = "fetch_json" /\ fetched.kind \in {item, property})
        => /\ \A id \in fetched.batch \ Requested : Appearances(id) = 0
           /\ fetched.exc # "invalid_argument"

\* C29: for a non-empty batch the number of requests depends only on the
\* size of the batch before filtering: a chunk that the filter empties
\* still sends its request.
C29_EmptyChunksStillSent ==
    (/\ fetched.op = "fetch_json"
     /\ fetched.kind \in {item, property, any}
     /\ fetched.batch # {}
     /\ fetched.exc = "none")
        => Len(fetched.reqs) = ChunkCount(Cardinality(fetched.batch))

\* C30: a fetch of any of the five batchable kinds on a non-empty batch of
\* valid identifiers of that kind sends requests and returns the merged
\* result; it does not fail with an invalid-argument error.
C30_BatchableKindsAccepted ==
    (/\ fetched.op = "fetch_json"
     /\ fetched.kind \in BatchableKinds
     /\ fetched.batch # {}
     /\ \A id \in fetched.batch : identify(id) = fetched.kind)
        => /\ fetched.exc # "invalid_argument"
           /\ fetched.exc = "none"
                => /\ fetched.reqs # <<>>
                   /\ is_object(fetched.json, <<"entities">>)

(***************************************************************************)
(* The merged result of a fetch                                            *)
(***************************************************************************)
\* the keys of a JSON object, top-level and nested, as paths
Keys(data) == {SubSeq(l[1], 1, n) : l \in data, n \in 1..3} \ {<<>>}
\* the right-biased recursive merge of two JSON objects: two objects under
\* one key are merged key by key, any other collision keeps the right value
MergeRight(A, B) ==
    {a \in A : ~\E b \in B : \/ Prefix(a[1], b[1])
                             \/ (Prefix(b[1], a[1]) /\ b[2] # "{}")}
    \cup {b \in B : ~(b[2] = "{}"
                        /\ \E a \in A : /\ Prefix(b[1], a[1])
                                        /\ Len(a[1]) > Len(b[1]))}
\* the merge of a sequence of responses, in order
RECURSIVE MergeAll(_)
MergeAll(docs) ==
    IF docs = <<>> THEN object
    ELSE MergeRight(MergeAll(SubSeq(docs, 1, Len(docs) - 1)),
                    docs[Len(docs)])

\* C31: the result of a fetch is the right-biased recursive merge of all
\* chunk responses in issue order; every key of every chunk response,
\* top-level or nested, is in the result.
C31_ResultIsRecursiveMerge ==
    (fetched.op = "fetch_json" /\ fetched.exc = "none"
        /\ fetched.reqs # <<>>)
        => /\ fetched.json = MergeAll(fetched.docs)
           /\ \A i \in DOMAIN fetched.docs :
                 Keys(fetched.docs[i]) \subseteq Keys(fetched.json)

(***************************************************************************)
(* A fetch that fails on a chunk                                           *)
(***************************************************************************)
\* reply r makes get_with_retries return
Good(r) == r.net_ok /\ r.status_code >= 200 /\ r.status_code < 300
\* the replies the fetch made last has used up, in order
Used == [i \in 1..fetched.attempts |-> Served(fetched.server, i)]

\* C32: a terminal transport failure or a malformed response on any chunk
\* of a fetch ends the fetch with that failure: the chunk that failed is
\* the last one requested, the responses before it were all merged and
\* none is returned, and a response that does not parse is the last reply
\* the fetch asks for.
C32_ChunkFailureAborts ==
    (fetched.op = "fetch_json" /\ fetched.exc \in ChunkFailures)
        => /\ fetched.reqs # <<>>
           /\ Len(fetched.reqs) <= ChunkCount(Cardinality(Requested))
           /\ Len(fetched.docs) = Len(fetched.reqs) - 1
           /\ Cardinality({i \in DOMAIN Used : Good(Used[i])})
                 = Len(fetched.docs)
                   + (IF fetched.exc = "parse_error" THEN 1 ELSE 0)
           /\ \A i \in DOMAIN Used :
                 (Good(Used[i]) /\ ~Used[i].parses)
                    => /\ i = fetched.attempts
                       /\ fetched.exc = "parse_error"
           /\ fetched.exc = "runtime_error"
                 => ~Good(Used[fetched.attempts])
           /\ fetched.json = object

\* the second of three chunks gets a response that does not parse: two
\* requests, two replies, one response merged
C32_Witness ==
    /\ fetched.op = "fetch_json"
    /\ fetched.exc = "parse_error"
    /\ ChunkCount(Cardinality(Requested)) = 3
    /\ Len(fetched.reqs) = 2
    /\ fetched.attempts = 2
    /\ Len(fetched.docs) = 1

(***************************************************************************)
(* The free functions                                                      *)
(***************************************************************************)
\* C33: choose_http_method returns POST exactly when the request forces
\* POST, or the hint is automatic and the query is strictly longer than
\* the threshold; in every other case it returns GET.
C33_PostOnlyWhenForcedOrLong ==
    applied.op = "choose_http_method"
        => /\ applied.output \in {http_get, http_post}
           /\ applied.output = http_post
                 <=> \/ applied.input.method = force_post
                     \/ /\ applied.input.method = automatic
                        /\ Len(applied.input.query) > applied.input.threshold

\* an automatic request whose query is exactly as long as the threshold
\* goes by GET
C33_Witness ==
    /\ applied.op = "choose_http_method"
    /\ applied.input.method = automatic
    /\ Len(applied.input.query) = applied.input.threshold
    /\ applied.input.threshold > 0
    /\ applied.output = http_get

\* C34: for a numeral n >= 0 and a concrete kind k, identify(normalize(n,
\* k)) is k for item, property, lexeme, mediainfo and entity_schema and is
\* lexeme for form and sense; normalize fails with invalid_argument for a
\* negative n and for the kinds any and unknown.
C34_NormalizeThenIdentify ==
    applied.op = "normalize"
        => IF applied.input.id < 0 \/ applied.input.kind \in {any, unknown}
           THEN applied.output.exc = "invalid_argument"
           ELSE /\ applied.output.exc = "none"
                /\ identify(applied.output.val)
                      = (IF applied.input.kind \in {form, sense}
                         THEN lexeme ELSE applied.input.kind)

\* the largest numeral as a sense: normalize gives the lexeme L2147483647
C34_Witness ==
    /\ applied.op = "normalize"
    /\ applied.input = [id |-> INT_MAX, kind |-> sense]
    /\ applied.output.val = <<"L">> \o to_string(INT_MAX)
    /\ identify(applied.output.val) = lexeme

\* a canonical decimal numeral in 0..2147483647: digits only, no leading
\* zero unless it is "0", and not above the largest int
CanonicalNumeral(num) ==
    LET max == to_string(INT_MAX)
    IN  /\ num # <<>>
        /\ \A i \in DOMAIN num : num[i] \in Digits
        /\ Len(num) = 1 \/ num[1] # "0"
        /\ \/ Len(num) < Len(max)
           \/ /\ Len(num) = Len(max)
              /\ \/ num = max
                 \/ \E i \in DOMAIN num :
                       /\ DigitVal(num[i]) < DigitVal(max[i])
                       /\ \A j \in 1..(i - 1) : num[j] = max[j]
\* the kind a string spells: a prefix and a canonical numeral, or the
\* lexeme prefix, a canonical numeral, -F or -S and a canonical numeral;
\* unknown for every other string
Spelled(s) ==
    IF s = <<>> THEN unknown
    ELSE IF find(s[1]) # npos /\ CanonicalNumeral(Tail(s))
    THEN find(s[1])
    ELSE IF /\ s[1] = "L"
            /\ \E k \in 3..(Len(s) - 2) :
                  /\ s[k] = "-"
                  /\ s[k + 1] \in {"F", "S"}
                  /\ CanonicalNumeral(SubSeq(s, 2, k - 1))
                  /\ CanonicalNumeral(SubSeq(s, k + 2, Len(s)))
    THEN IF \E k \in 3..(Len(s) - 2) : s[k] = "-" /\ s[k + 1] = "F"
         THEN form ELSE sense
    ELSE unknown

\* C35: identify returns unknown for every string that is not exactly a
\* kind prefix and a canonical numeral in 0..2147483647, followed for the
\* lexeme prefix only by nothing or by -F or -S and another canonical
\* numeral; for a string that is, it returns the kind spelled, and
\* 2147483647 is accepted.
C35_IdentifyRejectsAllElse ==
    applied.op = "identify"
        => /\ applied.output = Spelled(applied.input)
           /\ applied.input = <<"Q">> \o to_string(INT_MAX)
                 => applied.output = item

\* one above the largest numeral is rejected
C35_Witness ==
    /\ applied.op = "identify"
    /\ applied.input = <<"Q">> \o to_string(INT_MAX \div 10) \o <<"8">>
    /\ applied.output = unknown

(***************************************************************************)
(* The frame of flush                                                      *)
(***************************************************************************)
\* C36: flush(kind) has no effect outside the queues of the flushed kind:
\* the main and extra queues of every other kind, the members of every
\* group, the current group and the touch counters are after the call what
\* they were before it, whatever it returns.
C36_FlushFrame ==
    [][last'.op = "flush"
       => /\ \A k \in QueueIndex \ {last'.kind} :
                /\ main_batches'[k] = main_batches[k]
                /\ extra_batches'[k] = extra_batches[k]
          /\ groups' = groups
          /\ current_group' = current_group
          /\ candidates' = candidates]_vars

\* an item flush with a lexeme queued, a group filled and a touch counted
C36_Witness ==
    /\ last.op = "flush"
    /\ last.kind = item
    /\ main_batches[lexeme] # {}
    /\ candidates # <<>>
    /\ current_group \in DOMAIN groups
    /\ groups[current_group] # {}

(***************************************************************************)
(* A flush whose fetch fails                                               *)
(***************************************************************************)
\* a failing call leaves the exception to its caller and removes nothing
\* from any queue; a failing add_entity of a valid identifier has put the
\* string into its group and the root into the queue
FailureKeepsQueues ==
    /\ (last'.op = "flush" /\ last'.kind \in BatchableKinds
           /\ last'.exc # "none")
          => /\ last'.exc \in ChunkFailures \cup {"invalid_argument"}
             /\ main_batches' = main_batches
             /\ extra_batches' = extra_batches
    /\ (last'.op = "add_entity" /\ identify(last'.id) # unknown
           /\ last'.exc # "none")
          => /\ last'.exc \in ChunkFailures \cup {"invalid_argument"}
             /\ current_group' \in DOMAIN groups'
             /\ last'.id \in groups'[current_group']
             /\ RootOf(last'.id)
                   \in main_batches'[identify(RootOf(last'.id))]
             /\ \A k \in QueueIndex : main_batches[k] \subseteq main_batches'[k]

\* C37: when the fetch fails during a flush the failure reaches the caller
\* and no identifier leaves the queue of the kind, so that a later flush,
\* its requests answered, sends the same identifiers; when the flush was
\* started by add_entity, the identifier added is in its group and in the
\* queue when the failure reaches the caller.
C37_FailedFlushKeepsQueue ==
    [][/\ FailureKeepsQueues
       /\ (last'.op = "flush" /\ last'.kind \in BatchableKinds
              /\ FetchesSucceed(last'))
             => Sent(last') = main_batches[last'.kind]]_vars

(***************************************************************************)
(* The contents of the queues                                              *)
(***************************************************************************)
\* C38: in every reachable state the main queue and the extra queue of a
\* batchable kind are disjoint, whatever the order of the add_entity and
\* touch_entity calls on an identifier.
C38_MainExtraDisjoint ==
    \A k \in BatchableKinds : main_batches[k] \cap extra_batches[k] = {}

\* C39: in every reachable state every identifier in the main or extra
\* queue of kind k is a canonical identifier that identify gives kind k,
\* never a form or sense string and never an invalid string.
C39_QueuesHoldTheirKind ==
    \A k \in QueueIndex :
        \A id \in main_batches[k] \cup extra_batches[k] :
            /\ identify(id) = k
            /\ id = RootOf(id)

\* a form added and touched up to the threshold: its lexeme root, and not
\* the form string, is in the main and in the extra queue of lexeme
C39_Witness ==
    /\ last.op = "touch_entity"
    /\ last.id = L1F1
    /\ main_batches[lexeme] = {L1}
    /\ extra_batches[lexeme] = {L1}

(***************************************************************************)
(* get, post_form and post_raw                                             *)
(***************************************************************************)
\* the step of thread t is the one iteration i prescribes
Follows(t, i) ==
    /\ metrics' = i.metrics
    /\ thread'[t].pc = (CASE i.step = "return" -> "returned"
                          [] i.step = "throw" -> "thrown"
                          [] i.step = "retry" -> "sleep")
    /\ thread'[t].what = i.what
    /\ thread'[t].sleep_ms = i.sleep_ms

\* C40: get, post_form and post_raw are one retry state machine: on the
\* same attempt number, outcome of the attempt (status, transport error,
\* retry hint) and metrics, each of the three makes the same metric
\* updates and takes the same step (return, retry with the same sleep, or
\* throw with the same failure), and the attempt a thread makes in any of
\* the three methods is the one get prescribes; so equal outcome sequences
\* give equal numbers of attempts and equal ends.
C40_OneRetryMachine ==
    [][\A t \in Threads :
          Attempts(t)
             => LET Same(a, r) ==
                        /\ \A d \in Jitter(retry_base_ms * (2 ^ (a - 1))) :
                              /\ post_form(metrics, a, r, d)
                                    = get(metrics, a, r, d)
                              /\ post_raw(metrics, a, r, d)
                                    = get(metrics, a, r, d)
                        /\ \E d \in Jitter(retry_base_ms * (2 ^ (a - 1))) :
                              Follows(t, get(metrics, a, r, d))
                IN  Same(thread[t].attempt,
                         Outcome(thread[t].script, thread[t].attempt))]_vars

\* a post_raw call, answered 503 with a hint of five seconds, sleeps those
\* five seconds before its second attempt
C40_Witness ==
    \E t \in Threads :
        /\ thread[t].method = "post_raw"
        /\ thread[t].pc = "sleep"
        /\ thread[t].script = <<r503_after5, r200>>
        /\ thread[t].sleep_ms = 5000

=============================================================================
